---- MODULE Spec2Model ----
(***************************************************************************)
(* A state-machine model of the eidaws federator's request-federation      *)
(* engine: the cached federate() entry point, route resolution, the        *)
(* availability dispatch and worker, the worker pool, the ordered drain,   *)
(* the join with streaming timeout and finalize; and of the station        *)
(* crawler's use of the worker pool.                                       *)
(***************************************************************************)
EXTENDS Integers, Sequences, FiniteSets, TLC

(***************************************************************************)
(* Bounds of the model.                                                    *)
(***************************************************************************)
\* Blocks (URL line followed by rows) of a routing response.
MaxBlocks == 2
\* Rows (SNCL lines) below one URL line.
MaxRows == 2
\* Stand-in for datetime.timedelta.max, scaled down to the model's day counts.
TimedeltaMax == 9
\* Requests handled one after the other by the federator process.
MaxRequests == 2
\* Stream epochs the crawler receives from routing for one level.
MaxCrawlEpochs == 2
\* Levels the crawler is configured with.
MaxCrawlLevels == 2

(***************************************************************************)
(* Program constants (eidaws.utils.settings).                              *)
(***************************************************************************)
FDSNWS_DEFAULT_NO_CONTENT_ERROR_CODE == 204
FDSNWS_NO_CONTENT_CODES == {FDSNWS_DEFAULT_NO_CONTENT_ERROR_CODE, 404}

\* Python's None, for optional integers.
None == 0 - 1
\* No URL being parsed (None or the empty string: both are falsy).
NoUrl == ""

(***************************************************************************)
(* Small helpers.                                                          *)
(***************************************************************************)
Range(s) == {s[i] : i \in DOMAIN s}

Min(S) == CHOOSE x \in S : \A y \in S : x <= y

Max(S) == CHOOSE x \in S : \A y \in S : y <= x

(***************************************************************************)
(* The universe the inputs are drawn from.                                 *)
(***************************************************************************)
\* Endpoint URLs the routing service may name.
URLs == {"u1", "u2"}

\* SNCL rows of a routing response: stream epochs with day-valued times; an
\* absent endtime is None.
Rows ==
    { [net |-> "N1", sta |-> "A", start |-> 0, end |-> 1],
      [net |-> "N1", sta |-> "B", start |-> 0, end |-> 3],
      [net |-> "N2", sta |-> "A", start |-> 1, end |-> 2],
      [net |-> "N2", sta |-> "A", start |-> 3, end |-> None] }

\* self._default_endtime, utcnow() at construction of the processor.
DefaultEndtime == 4

\* Service configurations (self.config) the federator is run with; pool_size 0
\* stands for an unset pool size, a duration of None for an unset limit.
Configs ==
    { [pool_size |-> 1, endpoint_connection_limit |-> 2,
       max_stream_epoch_duration |-> 2, max_total_stream_epoch_duration |-> 3,
       client_retry_budget_threshold |-> 1, compress |-> TRUE,
       endpoint_request_method |-> "GET"],
      [pool_size |-> 0, endpoint_connection_limit |-> 2,
       max_stream_epoch_duration |-> None, max_total_stream_epoch_duration |-> 4,
       client_retry_budget_threshold |-> 1, compress |-> FALSE,
       endpoint_request_method |-> "POST"] }

\* Outcome of reading error_ratio(url): RatioError when the backend fails.
RatioError == None
Unread == 0 - 2
RatioValues(cfg) ==
    {RatioError, cfg.client_retry_budget_threshold, cfg.client_retry_budget_threshold + 1}

(***************************************************************************)
(* StreamEpoch (eidaws.utils.sncl).                                        *)
(***************************************************************************)
\* StreamEpoch.from_snclline(line, default_endtime=...): a missing endtime is
\* replaced by the default, when one is given.
FromSnclLine(row, default_endtime) ==
    IF row.end = None /\ default_endtime # None
    THEN [row EXCEPT !.end = default_endtime]
    ELSE row

\* StreamEpoch.duration: an open epoch lasts timedelta.max.
Duration(se) == IF se.end = None THEN TimedeltaMax ELSE se.end - se.start

\* StreamEpoch.id(): network.station.location.channel
Nslc(se) == <<se.net, se.sta>>

(***************************************************************************)
(* BaseRequestProcessor: configuration properties.                         *)
(***************************************************************************)
\* Variant: "and" in place of "or".
pool_size_and(cfg) ==
    IF cfg.pool_size # 0 THEN cfg.endpoint_connection_limit ELSE cfg.pool_size

\* pool_size: config["pool_size"] or config["endpoint_connection_limit"]
pool_size(cfg) ==
    IF cfg.pool_size # 0 THEN cfg.pool_size ELSE cfg.endpoint_connection_limit

\* timedelta values add with OverflowError caught: capped at timedelta.max.
AddDuration(total, d) ==
    IF total + d > TimedeltaMax THEN TimedeltaMax ELSE total + d

\* Variant: only the single stream epoch duration is validated.
validate_stream_durations_no_total(cfg, stream_duration, total_stream_duration) ==
    ~ ( cfg.max_stream_epoch_duration # None
        /\ stream_duration > cfg.max_stream_epoch_duration )

\* validate_stream_durations: TRUE when the durations are accepted, FALSE when
\* FDSNHTTPError 413 is raised.
validate_stream_durations(cfg, stream_duration, total_stream_duration) ==
    ~ ( ( cfg.max_stream_epoch_duration # None
          /\ stream_duration > cfg.max_stream_epoch_duration )
        \/ ( cfg.max_total_stream_epoch_duration # None
             /\ total_stream_duration > cfg.max_total_stream_epoch_duration ) )

\* e_ratio > client_retry_budget_threshold, for a ratio that could be read.
ExceedsBudget(cfg, e_ratio) ==
    e_ratio # RatioError /\ e_ratio > cfg.client_retry_budget_threshold


(***************************************************************************)
(* State.                                                                  *)
(***************************************************************************)
VARIABLES
    \* process-wide
    config,          \* the service configuration
    catalogue,       \* the routing service's table: the URLs and rows it may answer with
    cache,           \* Cache: key -> stored bytes, or NoEntry
    cache_backend,   \* the Cache's backing store: faulty or not, and (history) the
                     \* operations that failed during this request
    budget_backend,  \* the RetryBudget's backing store: faulty or not, and (history)
                     \* the operations that failed during this request
    origin,          \* history: request -> the body streamed to the client when its reply was cached
    nreq,            \* requests the clients have yet to send
    \* one request's processor
    req,             \* post, nodata (query_params), stream_epochs (ses), Accept-Encoding
    pc,              \* position of federate()
    status,          \* HTTP status of the reply, 0 while there is none
    await_on_close,  \* self._await_on_close
    fin,             \* steps of finalize() run so far, in order
    e_ratio,         \* error_ratio(url) as read from the RetryBudget during this request
    parse,           \* local variables of _emerge_routes
    routed_urls,     \* self._routed_urls
    gc_calls,        \* history: url -> calls of gc_cretry_budget(url) made for this request
    routes,          \* demuxed routes returned by _route
    routed,          \* history: total and longest duration of the rows read below URLs within budget
    pending,         \* jobs _dispatch still has to submit, in priority order
    jobs,            \* jobs submitted to the Pool, by priority + 1
    heap,            \* the Drain's heap of fragments
    response,        \* the reply: prepared, eof, wire bytes, Content-Encoding, reset, hit
    cache_buffer,    \* dump_to_cache_buffer's accumulator
    routing_reqs,    \* the routing requests issued for this request: method and answer
    endpoint_reqs,   \* URLs an endpoint request was issued to for this request
    budget,          \* <<url, code>> recorded by update_cretry_budget during this request
    endpoint_methods,\* HTTP methods of the endpoint requests issued for this request
    \* the crawler
    crawl,           \* position, levels left, submissions left and jobs of the crawler
    \* a splitting worker (dataselect)
    split,           \* its stack of sub-epochs, the endpoint calls made and the body assembled
    \* an availability worker
    worker,          \* run() of one job: per route the answer, the handler called, the codes
                     \* passed to update_cretry_budget and what _fetch returned
    \* the request handlers of one request
    handler          \* the client's query parameters and a route's URL, and the parameters
                     \* and URL of the routing and of the endpoint request built from them

procvars ==
    <<gc_calls, config, catalogue, budget_backend, cache_backend, endpoint_methods, budget, cache, origin, nreq, req, pc, status, await_on_close, fin, e_ratio, parse,
      routed_urls, routes, routed, pending, jobs, heap, response, cache_buffer, routing_reqs,
      endpoint_reqs>>

fedvars == <<procvars, handler>>

vars == <<fedvars, crawl, split, worker>>

(***************************************************************************)
(* Cache (CachingMixin) and content codings.                               *)
(***************************************************************************)
NoEntry == [enc |-> "none", data |-> <<>>]

Identity(data) == [enc |-> "identity", data |-> data]

\* gzip of identity-coded bytes, and its inverse.
Compress(bytes) == [bytes EXCEPT !.enc = "gzip"]
Decompress(bytes) == [bytes EXCEPT !.enc = "identity"]

\* The processor type tag of the cache key.
ProcessorType == "AvailabilityRequestProcessor"

\* make_cache_key(query_params, stream_epochs, key_prefix=type(self))
make_cache_key(query_params, stream_epochs, key_prefix) ==
    <<key_prefix, query_params, stream_epochs>>

\* The stream-epoch lists clients ask for, and the cache keys of their requests.
ClientStreamEpochs == {"E1"}
CacheKeys ==
    {make_cache_key([nodata |-> n], e, ProcessorType) : n \in {None, 404}, e \in ClientStreamEpochs}

\* get_cache(key, decompress): <<bytes, found>>
get_cache(store, key, decompress) ==
    IF store[key] = NoEntry THEN <<NoEntry, FALSE>>
    ELSE <<IF decompress /\ store[key].enc = "gzip" THEN Decompress(store[key]) ELSE store[key],
           TRUE>>

\* set_cache(key): stores the accumulated buffer, compressed when so configured.
set_cache(store, key, buffer, compressed) ==
    [store EXCEPT ![key] = IF compressed THEN Compress(Identity(buffer)) ELSE Identity(buffer)]

\* A backing store that answers every operation, and the outcomes of one
\* operation on a store that is faulty or not.
HealthyBackend == [faulty |-> FALSE, raises |-> FALSE, failed |-> {}]
BackendOutcomes(backend) == IF backend.faulty THEN BOOLEAN ELSE {TRUE}

\* Variant: a failed lookup is raised to the caller.
cache_lookup_raising(store, key, decompress, ok) ==
    IF ok THEN [got |-> get_cache(store, key, decompress), raised |-> FALSE]
    ELSE [got |-> <<NoEntry, FALSE>>, raised |-> TRUE]

\* get_cache on a backing store that may fail: a failure is a miss.
cache_lookup(store, key, decompress, ok) ==
    IF ok THEN [got |-> get_cache(store, key, decompress), raised |-> FALSE]
    ELSE [got |-> <<NoEntry, FALSE>>, raised |-> FALSE]

\* set_cache on a backing store that may fail: a failure drops the write.
cache_store(store, key, buffer, compressed, ok) ==
    IF ok THEN [store |-> set_cache(store, key, buffer, compressed), raised |-> FALSE]
    ELSE [store |-> store, raised |-> FALSE]

\* What the client holds after undoing the reply's Content-Encoding.
\* ClientRetryBudgetMixin.update_cretry_budget: the code is recorded; when the
\* backing store fails nothing is recorded and nothing is raised.
budget_add(recorded, update, ok) ==
    IF ok THEN recorded \cup update ELSE recorded

ClientBody(resp) ==
    IF resp.content_encoding = "gzip" THEN
        IF resp.wire.enc = "gzip" THEN Decompress(resp.wire) ELSE [enc |-> "garbled", data |-> <<>>]
    ELSE resp.wire


(***************************************************************************)
(* Requests.                                                               *)
(***************************************************************************)
\* query_params: the nodata parameter is absent (None) or 404.
QueryParams == {[nodata |-> None], [nodata |-> 404]}

\* BaseRequestProcessor.nodata
nodata(r) ==
    IF r.query_params.nodata = None THEN FDSNWS_DEFAULT_NO_CONTENT_ERROR_CODE
    ELSE r.query_params.nodata

Method(r) == IF r.post THEN "POST" ELSE "GET"

\* What makes two requests identical: query parameters and stream epochs.
RequestId(r) == <<r.query_params, r.ses>>
RequestIds == {<<q, e>> : q \in QueryParams, e \in ClientStreamEpochs}

NoKey == <<>>

\* No request handler was built.
IdleHandler ==
    [pc |-> "idle", query_params |-> <<>>, format |-> "", path |-> <<>>,
     routing |-> <<>>, endpoint |-> <<>>, url |-> <<>>]

\* No call of gc_cretry_budget was made.
NoGc == [u \in URLs |-> 0]

InitParse ==
    [url |-> NoUrl, skip_url |-> FALSE, urls |-> {}, routes |-> <<>>, total |-> 0,
     nblocks |-> 0, nrows |-> 0, trail |-> FALSE]

InitResponse ==
    [prepared |-> FALSE, eof |-> FALSE, wire |-> Identity(<<>>),
     content_encoding |-> "identity", reset |-> FALSE, hit |-> FALSE, passed |-> 0]

NoRequest == [post |-> FALSE, query_params |-> [nodata |-> None], ses |-> "E1"]

InitBackend ==
    /\ cache_backend = HealthyBackend
    /\ budget_backend = HealthyBackend

\* The server before its first request: no processor is at work.
InitProcessor ==
    /\ req = NoRequest
    /\ pc = "idle"
    /\ status = 0
    /\ await_on_close = <<[step |-> "gc", key |-> NoKey], [step |-> "teardown", key |-> NoKey]>>
    /\ fin = <<>>
    /\ e_ratio = [u \in URLs |-> Unread]
    /\ parse = InitParse
    /\ routed_urls = {}
    /\ gc_calls = NoGc
    /\ routes = <<>>
    /\ routed = [total |-> 0, longest |-> 0]
    /\ pending = <<>>
    /\ jobs = <<>>
    /\ heap = {}
    /\ response = InitResponse
    /\ cache_buffer = <<>>
    /\ routing_reqs = <<>>
    /\ endpoint_reqs = {}
    /\ budget = {}
    /\ endpoint_methods = {}
    /\ handler = IdleHandler

(***************************************************************************)
(* cached: the decorator of federate().                                    *)
(***************************************************************************)
\* decompress = False if not compressed_cache
\*              or ENCODING in accept_encoding and compressed_cache else True
CachedDecompress(compressed_cache, accepts_gzip) ==
    ~ (~compressed_cache \/ (accepts_gzip /\ compressed_cache))

\* Variant: the Content-Encoding header is never set.
cached_response_identity(resp, cached, decompress, compressed_cache) ==
    [resp EXCEPT !.wire = cached, !.content_encoding = "identity", !.hit = TRUE]

\* The web.Response built on a hit: the cached bytes, compression left to the
\* framework when they were decompressed, else labelled gzip when the cache
\* is compressed.
cached_response(resp, cached, decompress, compressed_cache) ==
    [resp EXCEPT
       !.wire = cached,
       !.content_encoding =
           IF decompress THEN "identity"
           ELSE IF compressed_cache THEN "gzip" ELSE "identity",
       !.hit = TRUE]

\* Variant: set_cache is queued behind the coroutines already waiting.
on_close_append(waiting, coro) == Append(waiting, coro)

\* self._await_on_close.insert(0, functools.partial(self.set_cache, cache_key))
on_close_insert(waiting, coro) == <<coro>> \o waiting

\* wrapper: look the key up, queue set_cache for finalize, answer from the
\* cache on a hit and call federate() on a miss.
Cached ==
    /\ pc = "start"
    /\ \E accepts_gzip \in BOOLEAN :
         LET cache_key == make_cache_key(req.query_params, req.ses, ProcessorType)
             compressed_cache == config.compress
             decompress == CachedDecompress(compressed_cache, accepts_gzip)
         IN \E ok \in BackendOutcomes(cache_backend) :
              LET looked == cache_lookup(cache, cache_key, decompress, ok)
                  got == looked.got
              IN /\ cache_backend' =
                        IF ok THEN cache_backend
                        ELSE [cache_backend EXCEPT !.failed = @ \cup {"get"}]
                 /\ IF looked.raised
                    THEN /\ status' = 500
                         /\ pc' = "errored"
                         /\ UNCHANGED <<await_on_close, response>>
                    ELSE /\ await_on_close' =
                              on_close_insert(await_on_close,
                                              [step |-> "set_cache", key |-> cache_key])
                         /\ IF got[2]
                            THEN /\ response' =
                                      cached_response(response, got[1], decompress,
                                                      compressed_cache)
                                 /\ status' = 200
                                 /\ pc' = "done"
                            ELSE /\ pc' = "route"
                                 /\ UNCHANGED <<response, status>>
    /\ UNCHANGED <<gc_calls, config, catalogue, budget_backend, endpoint_methods, budget, cache, origin, nreq, req, fin, e_ratio, parse, routed_urls,
                   routes, routed, pending, jobs, heap, cache_buffer, routing_reqs,
                   endpoint_reqs, crawl, split, worker, handler>>

(***************************************************************************)
(* BaseRequestProcessor._route and the head of federate().                 *)
(***************************************************************************)
\* What the routing service may answer: a status, or no answer at all.
RoutingAnswers ==
    {[exc |-> "none", status |-> c] : c \in {200, 202, 204, 404, 400, 500}}
    \cup {[exc |-> e, status |-> 0] : e \in {"ClientError", "TimeoutError"}}

\* Variant: the default no-content code in place of self.nodata.
route_status_default_nodata(answer, r) ==
    IF answer.exc # "none" THEN 500
    ELSE IF answer.status \in FDSNWS_NO_CONTENT_CODES
         THEN FDSNWS_DEFAULT_NO_CONTENT_ERROR_CODE
    ELSE IF answer.status >= 400 THEN 500
    ELSE IF answer.status # 200 THEN 500
    ELSE 0

\* Variant: without the check "resp.status != 200".
route_status_pass_non_200(answer, r) ==
    IF answer.exc # "none" THEN 500
    ELSE IF answer.status \in FDSNWS_NO_CONTENT_CODES THEN nodata(r)
    ELSE IF answer.status >= 400 THEN 500
    ELSE 0

\* The status of the FDSNHTTPError that _route (or federate, for a client
\* error or a timeout) raises on a routing answer; 0 when none is raised.
route_status(answer, r) ==
    IF answer.exc # "none" THEN 500
    ELSE IF answer.status \in FDSNWS_NO_CONTENT_CODES THEN nodata(r)
    ELSE IF answer.status >= 400 THEN 500
    ELSE IF answer.status # 200 THEN 500
    ELSE 0

\* _route up to the call of _emerge_routes.
Route ==
    /\ pc = "route"
    /\ \E answer \in RoutingAnswers :
         /\ routing_reqs' = Append(routing_reqs, [method |-> Method(req), answer |-> answer])
         /\ IF route_status(answer, req) # 0
            THEN /\ status' = route_status(answer, req)
                 /\ pc' = "errored"
            ELSE /\ pc' = "emerge"
                 /\ UNCHANGED status
    /\ UNCHANGED <<gc_calls, config, catalogue, budget_backend, cache_backend, endpoint_methods, budget, cache, origin, nreq, req, await_on_close, fin, e_ratio, parse,
                   routed_urls, routes, routed, pending, jobs, heap, response,
                   cache_buffer, endpoint_reqs, crawl, split, worker, handler>>


(***************************************************************************)
(* BaseRequestProcessor._emerge_routes: one iteration of its loop per      *)
(* line of the routing response.  The response is revealed line by line;   *)
(* the counters nblocks, nrows and trail only shape the texts.             *)
(***************************************************************************)
Route_(url, se) == [url |-> url, se |-> se]

\* Variant: the error ratio is not compared with the threshold.
emerge_url_line_never_skip(cfg, st, line, ratio) ==
    [st EXCEPT !.url = line]

\* Variant: a URL whose error ratio cannot be read is skipped.
emerge_url_line_skip_unread(cfg, st, line, ratio) ==
    [st EXCEPT !.url = line,
               !.skip_url = IF ratio = RatioError \/ ExceedsBudget(cfg, ratio)
                            THEN TRUE ELSE st.skip_url]

\* "if not url": the line is taken as the URL and its error ratio is read; an
\* exception of the read is passed over.
emerge_url_line(cfg, st, line, ratio) ==
    [st EXCEPT !.url = line,
               !.skip_url = IF ExceedsBudget(cfg, ratio) THEN TRUE ELSE st.skip_url]

\* Variant: skip_url is not reset at the end of a block.
emerge_blank_line_keep_skip(st) ==
    [st EXCEPT !.urls = st.urls \cup {st.url}, !.url = NoUrl]

\* "elif not line.strip()": the block of the current URL ends.
emerge_blank_line(st) ==
    [st EXCEPT !.urls = st.urls \cup {st.url}, !.url = NoUrl, !.skip_url = FALSE]

\* "else": a row below the current URL; err is the status raised, or 0.
emerge_row_line(cfg, post, st, row) ==
    LET se == FromSnclLine(row, IF post THEN DefaultEndtime ELSE None)
        stream_duration == Duration(se)
        total_stream_duration == AddDuration(st.total, stream_duration)
    IN IF st.skip_url THEN [st |-> st, err |-> 0]
       ELSE IF ~validate_stream_durations(cfg, stream_duration, total_stream_duration)
            THEN [st |-> [st EXCEPT !.total = total_stream_duration], err |-> 413]
            ELSE [st |-> [st EXCEPT !.total = total_stream_duration,
                                    !.routes = Append(st.routes, Route_(st.url, se))],
                  err |-> 0]

\* error_ratio of a URL no request was ever made to.
NoSampleRatio == 0

\* A URL line opening a block.
EmergeUrl ==
    /\ pc = "emerge"
    /\ parse.url = NoUrl /\ ~parse.trail /\ parse.nblocks < MaxBlocks
    /\ \E u \in catalogue.urls :
         \E ratio \in (IF e_ratio[u] = Unread THEN RatioValues(config) ELSE {e_ratio[u]}) :
            /\ e_ratio' = [e_ratio EXCEPT ![u] = ratio]
            /\ parse' = [emerge_url_line(config, parse, u, ratio) EXCEPT
                            !.nblocks = parse.nblocks + 1, !.nrows = 0]
    /\ UNCHANGED <<gc_calls, config, catalogue, budget_backend, cache_backend, endpoint_methods, budget, cache, origin, nreq, req, pc, status, await_on_close, fin,
                   routed_urls, routes, routed, pending, jobs, heap, response,
                   cache_buffer, routing_reqs, endpoint_reqs, crawl, split, worker, handler>>

\* An empty line: it ends the current block, or is read where a URL is expected.
EmergeBlank ==
    /\ pc = "emerge"
    /\ IF parse.url = NoUrl
       THEN /\ parse.nblocks >= 1 /\ ~parse.trail
            /\ parse' = [emerge_url_line(config, parse, NoUrl, NoSampleRatio) EXCEPT
                            !.trail = TRUE]
       ELSE /\ parse.nrows >= 1
            /\ parse' = emerge_blank_line(parse)
    /\ UNCHANGED <<gc_calls, config, catalogue, budget_backend, cache_backend, endpoint_methods, budget, cache, origin, nreq, req, pc, status, await_on_close, fin,
                   e_ratio, routed_urls, routes, routed, pending, jobs, heap,
                   response, cache_buffer, routing_reqs, endpoint_reqs, crawl, split, worker, handler>>

\* A row below the current URL.
EmergeRow ==
    /\ pc = "emerge"
    /\ parse.url # NoUrl /\ parse.nrows < MaxRows
    /\ \E row \in catalogue.rows :
         LET got == emerge_row_line(config, req.post, parse, row)
             se == FromSnclLine(row, IF req.post THEN DefaultEndtime ELSE None)
         IN /\ parse' = [got.st EXCEPT !.nrows = parse.nrows + 1]
            /\ routed' =
                   IF e_ratio[parse.url] > config.client_retry_budget_threshold
                   THEN routed
                   ELSE [total |-> routed.total + Duration(se),
                         longest |-> Max({routed.longest, Duration(se)})]
            /\ IF got.err # 0
               THEN status' = got.err /\ pc' = "errored"
               ELSE UNCHANGED <<status, pc>>
    /\ UNCHANGED <<gc_calls, config, catalogue, budget_backend, cache_backend, endpoint_methods, budget, cache, origin, nreq, req, await_on_close, fin, e_ratio,
                   routed_urls, routes, pending, jobs, heap, response, cache_buffer,
                   routing_reqs, endpoint_reqs, crawl, split, worker, handler>>

\* The end of the text: _emerge_routes returns <<urls, routes>>, federate()
\* stores them and raises the nodata error when there is no route.
EmergeReturn ==
    /\ pc = "emerge"
    /\ parse.url = NoUrl \/ parse.nrows >= 1
    /\ routed_urls' = parse.urls
    /\ routes' = parse.routes
    /\ parse' = InitParse
    /\ IF parse.routes = <<>>
       THEN status' = nodata(req) /\ pc' = "errored"
       ELSE pc' = "make_response" /\ UNCHANGED status
    /\ UNCHANGED <<gc_calls, config, catalogue, budget_backend, cache_backend, endpoint_methods, budget, cache, origin, nreq, req, await_on_close, fin, e_ratio,
                   routed, pending, jobs, heap, response, cache_buffer, routing_reqs,
                   endpoint_reqs, crawl, split, worker, handler>>


(***************************************************************************)
(* AvailabilityRequestProcessor._dispatch                                  *)
(***************************************************************************)
RECURSIVE Distinct(_)
\* The distinct elements of a sequence, in the order of their first occurrence
\* (the key order of the dict group_routes_by builds).
Distinct(q) ==
    IF q = <<>> THEN <<>>
    ELSE LET rest == Distinct(SubSeq(q, 1, Len(q) - 1))
         IN IF q[Len(q)] \in Range(rest) THEN rest ELSE Append(rest, q[Len(q)])

\* group_routes_by(routes, key="network"): the keys, and one group.
NetKeys(rs) == Distinct([i \in DOMAIN rs |-> rs[i].se.net])
NetGroup(rs, net) == SelectSeq(rs, LAMBDA r : r.se.net = net)

\* group_routes_by(routes, key="network.station.location.channel")
NslcKeys(rs) == Distinct([i \in DOMAIN rs |-> Nslc(rs[i].se)])
NslcGroup(rs, k) == SelectSeq(rs, LAMBDA r : Nslc(r.se) = k)

\* none_as_max / max_as_none: an open endtime is compared as datetime.max.
DatetimeMax == 99
none_as_max(t) == IF t = None THEN DatetimeMax ELSE t
max_as_none(t) == IF t = DatetimeMax THEN None ELSE t

\* Variant: the last route of each group is kept as it is.
reduce_to_extent_last(rs) ==
    LET keys == NslcKeys(rs)
        Reduced(k) == LET g == NslcGroup(rs, k) IN g[Len(g)]
    IN [reduced |-> [i \in DOMAIN keys |-> Reduced(keys[i])],
        distributed |->
            \E i \in DOMAIN keys :
               LET g == NslcGroup(rs, keys[i])
               IN Cardinality({g[j].url : j \in DOMAIN g}) # 1]

\* Variant: without the check "len(urls) != 1".
reduce_to_extent_any_urls(rs) ==
    LET keys == NslcKeys(rs)
        Reduced(k) ==
            LET g == NslcGroup(rs, k)
                ts == {g[i].se.start : i \in DOMAIN g}
                      \cup {none_as_max(g[i].se.end) : i \in DOMAIN g}
                last == g[Len(g)]
            IN Route_(last.url, [last.se EXCEPT !.start = Min(ts), !.end = max_as_none(Max(ts))])
    IN [reduced |-> [i \in DOMAIN keys |-> Reduced(keys[i])],
        distributed |-> FALSE]

\* reduce_to_extent: one route per network.station.location.channel, spanning
\* the earliest start to the latest end of its routes.
reduce_to_extent(rs) ==
    LET keys == NslcKeys(rs)
        Reduced(k) ==
            LET g == NslcGroup(rs, k)
                ts == {g[i].se.start : i \in DOMAIN g}
                      \cup {none_as_max(g[i].se.end) : i \in DOMAIN g}
                last == g[Len(g)]
            IN Route_(last.url, [last.se EXCEPT !.start = Min(ts), !.end = max_as_none(Max(ts))])
    IN [reduced |-> [i \in DOMAIN keys |-> Reduced(keys[i])],
        distributed |->
            \E i \in DOMAIN keys :
               LET g == NslcGroup(rs, keys[i])
               IN Cardinality({g[j].url : j \in DOMAIN g}) # 1]

\* The network codes in ascending order, as sorted() orders them.
NetworkOrder == <<"N1", "N2">>

\* Variant: the keys in the order the routing response names them first.
SortedNets_unsorted(nets) == nets

\* sorted(grouped_routes)
SortedNets(nets) == SelectSeq(NetworkOrder, LAMBDA n : n \in Range(nets))

\* A job: its routes, what each _fetch returned, and (history) the routes in
\* the order their _fetch returned.
Job(net, priority, rs) ==
    [net |-> net, priority |-> priority, routes |-> rs, state |-> "queued",
     results |-> [i \in DOMAIN rs |-> "none"], arrived |-> <<>>]

\* Variant: the jobs are submitted from the highest priority down.
dispatch_jobs_descending(rs) ==
    LET nets == NetKeys(rs)
        sorted == SortedNets(nets)
        n == Len(sorted)
    IN [jobs |-> [i \in DOMAIN sorted |->
                    Job(sorted[n + 1 - i], n - i,
                        reduce_to_extent(NetGroup(rs, sorted[n + 1 - i])).reduced)],
        distributed |->
            \E i \in DOMAIN nets : reduce_to_extent(NetGroup(rs, nets[i])).distributed]

\* The jobs _dispatch submits, in order; distributed when a ValueError is raised.
dispatch_jobs(rs) ==
    LET nets == NetKeys(rs)
        sorted == SortedNets(nets)
    IN [jobs |-> [i \in DOMAIN sorted |->
                    Job(sorted[i], i - 1, reduce_to_extent(NetGroup(rs, sorted[i])).reduced)],
        distributed |->
            \E i \in DOMAIN nets : reduce_to_extent(NetGroup(rs, nets[i])).distributed]

\* _make_response up to the first pool.submit of _dispatch.
Dispatch ==
    /\ pc = "make_response"
    /\ LET d == dispatch_jobs(routes)
       IN IF d.distributed
          THEN /\ status' = nodata(req)
               /\ pc' = "errored"
               /\ UNCHANGED <<pending, routes>>
          ELSE /\ pending' = d.jobs
               /\ routes' = <<>>
               /\ pc' = "dispatch"
               /\ UNCHANGED status
    /\ UNCHANGED <<gc_calls, config, catalogue, budget_backend, cache_backend, endpoint_methods, budget, cache, origin, nreq, req, await_on_close, fin, e_ratio, parse,
                   routed_urls, routed, jobs, heap, response, cache_buffer,
                   routing_reqs, endpoint_reqs, crawl, split, worker, handler>>

(***************************************************************************)
(* Pool: the bounded worker pool.                                          *)
(***************************************************************************)
InFlight(js) == {i \in DOMAIN js : js[i].state \in {"running", "draining"}}

\* submit() goes ahead while fewer than max_workers jobs are in flight.
pool_has_room(in_flight, max_workers) == in_flight < max_workers

\* pool.submit(_routes, net, priority, ...) of _dispatch: the job starts; after
\* the last submit _make_response goes on to join the Drain.
PoolSubmit ==
    /\ pc = "dispatch"
    /\ pending # <<>>
    /\ pool_has_room(Cardinality(InFlight(jobs)), pool_size(config))
    /\ jobs' = Append(jobs, [Head(pending) EXCEPT !.state = "running"])
    /\ pending' = Tail(pending)
    /\ pc' = IF Tail(pending) = <<>> THEN "join" ELSE "dispatch"
    /\ UNCHANGED <<gc_calls, config, catalogue, budget_backend, cache_backend, endpoint_methods, budget, cache, origin, nreq, req, status, await_on_close, fin, e_ratio,
                   parse, routed_urls, routes, routed, heap, response, cache_buffer,
                   routing_reqs, endpoint_reqs, crawl, split, worker, handler>>


(***************************************************************************)
(* AvailabilityAsyncWorker                                                 *)
(***************************************************************************)
\* What an endpoint may do with a sub-request: answer with a status (a 200
\* with content, with content that loads to nothing, or with a body whose read
\* times out), or fail in transport or time out.
EndpointAnswers ==
    {[exc |-> "none", status |-> 200, body |-> b] : b \in {"content", "empty", "read_timeout"}}
    \cup {[exc |-> "none", status |-> c, body |-> "empty"] : c \in {204, 404, 413, 500}}
    \cup {[exc |-> e, status |-> 0, body |-> "empty"] : e \in {"ClientError", "TimeoutError"}}

\* _fetch: TRUE when it returns the response, FALSE when it returns None.
fetch_returns_resp(answer) ==
    IF answer.exc # "none" THEN FALSE
    ELSE IF answer.status >= 400 THEN FALSE
    ELSE IF answer.status # 200 THEN FALSE
    ELSE TRUE

\* _parse_response: TRUE when it returns data ("if not data: continue").
parse_response(answer) ==
    fetch_returns_resp(answer) /\ answer.body = "content"

\* What _fetch and _parse_response leave of a route: its data, nothing after an
\* answer, or nothing after a failed request.
FetchResult(answer) ==
    IF parse_response(answer) THEN "data"
    ELSE IF answer.exc # "none" THEN "failed"
    ELSE "nodata"

\* Variant: a failed request is not reported to the retry budget.
fetch_budget_update_no_503(url, answer) ==
    IF fetch_returns_resp(answer) THEN {<<url, answer.status>>} ELSE {}

\* _fetch: the response codes it passes to update_cretry_budget.
fetch_budget_update(url, answer) ==
    IF answer.exc # "none" THEN {<<url, 503>>}
    ELSE IF fetch_returns_resp(answer) THEN {<<url, answer.status>>}
    ELSE {}

\* _fetch and _parse_response: whether the route contributes data to _buf.
HasData(result) == result = "data"

\* The payload an endpoint returns for a route.
Payload(route) == [id |-> Nslc(route.se), url |-> route.url]

\* Variant: the buffer is filled as the responses arrive.
Buf_arrival_order(job) ==
    LET idx == SelectSeq(job.arrived, LAMBDA i : HasData(job.results[i]))
    IN [k \in DOMAIN idx |-> Payload(job.routes[idx[k]])]

\* Variant: each result replaces the buffer.
Buf_last_only(job) ==
    LET idx == SelectSeq([i \in DOMAIN job.routes |-> i], LAMBDA i : HasData(job.results[i]))
    IN IF idx = <<>> THEN <<>> ELSE <<Payload(job.routes[idx[Len(idx)]])>>

\* self._buf after the loop over the results of gather (in the order of the
\* tasks, one per route), and its serialization _dump.
Buf(job) ==
    LET idx == SelectSeq([i \in DOMAIN job.routes |-> i], LAMBDA i : HasData(job.results[i]))
    IN [k \in DOMAIN idx |-> Payload(job.routes[idx[k]])]

Fragment(priority, data) == [priority |-> priority, data |-> data]

\* Variant: every job drains with priority 0.
run_fragment_priority_zero(job) == Fragment(0, Buf(job))

\* run: the (priority, serialized) tuple handed to the Drain.
run_fragment(job) == Fragment(job.priority, Buf(job))

\* Variant: the endpoint requests take the method of the client's request.
endpoint_request_method_client(cfg, post) == IF post THEN "POST" ELSE "GET"

\* federate: the req_method handed to _make_response, _dispatch, run and _fetch.
endpoint_request_method(cfg, post) == cfg.endpoint_request_method

\* _fetch of one route of a running job: the endpoint request is issued and
\* answered (or times out).
WorkerFetch ==
    \E j \in DOMAIN jobs :
      /\ jobs[j].state = "running"
      /\ \E i \in DOMAIN jobs[j].routes :
           /\ jobs[j].results[i] = "none"
           /\ \E answer \in EndpointAnswers :
                LET update == fetch_budget_update(jobs[j].routes[i].url, answer)
                IN \E ok \in (IF update = {} THEN {TRUE}
                              ELSE BackendOutcomes(budget_backend)) :
                     /\ jobs' = [jobs EXCEPT ![j].results[i] = FetchResult(answer),
                                              ![j].arrived = Append(@, i)]
                     /\ budget' = budget_add(budget, update, ok)
                     /\ budget_backend' =
                            IF ok THEN budget_backend
                            ELSE [budget_backend EXCEPT !.failed = @ \cup {"add"}]
           /\ endpoint_reqs' = endpoint_reqs \cup {jobs[j].routes[i].url}
           /\ endpoint_methods' =
                  endpoint_methods \cup {endpoint_request_method(config, req.post)}
      /\ UNCHANGED <<gc_calls, config, catalogue, cache_backend, cache, origin, nreq, req, pc, status, await_on_close, fin,
                     e_ratio, parse, routed_urls, routes, routed, pending, heap,
                     response, cache_buffer, routing_reqs, crawl, split, worker, handler>>

\* The tail of run once every _fetch has returned: drain the serialized buffer
\* if there is any, then finalize.
WorkerDrain ==
    \E j \in DOMAIN jobs :
      /\ jobs[j].state = "running"
      /\ \A i \in DOMAIN jobs[j].routes : jobs[j].results[i] # "none"
      /\ IF Buf(jobs[j]) # <<>>
         THEN /\ heap' = heap \cup {run_fragment(jobs[j])}
              /\ jobs' = [jobs EXCEPT ![j].state = "draining"]
         ELSE /\ jobs' = [jobs EXCEPT ![j].state = "done"]
              /\ UNCHANGED heap
      /\ UNCHANGED <<gc_calls, config, catalogue, budget_backend, cache_backend, endpoint_methods, budget, cache, origin, nreq, req, pc, status, await_on_close, fin,
                     e_ratio, parse, routed_urls, routes, routed, pending, response,
                     cache_buffer, routing_reqs, endpoint_reqs, crawl, split, worker, handler>>

(***************************************************************************)
(* Drain: the ordered, back-pressured assembler.                           *)
(***************************************************************************)
\* Fragments the heap may hold before drain() holds its caller back.
DrainSoftBound == 1

\* drain() returns to the worker once the heap is within its soft bound.
WorkerReturn ==
    \E j \in DOMAIN jobs :
      /\ jobs[j].state = "draining"
      /\ Cardinality(heap) <= DrainSoftBound
      /\ jobs' = [jobs EXCEPT ![j].state = "done"]
      /\ UNCHANGED <<gc_calls, config, catalogue, budget_backend, cache_backend, endpoint_methods, budget, cache, origin, nreq, req, pc, status, await_on_close, fin,
                     e_ratio, parse, routed_urls, routes, routed, pending, heap,
                     response, cache_buffer, routing_reqs, endpoint_reqs, crawl, split, worker, handler>>

\* Variant: a priority passes through with a fragment only.
Emitted_with_fragment(js, p) ==
    /\ p + 1 \in DOMAIN js
    /\ \/ js[p + 1].state = "draining"
       \/ js[p + 1].state = "done" /\ Buf(js[p + 1]) # <<>>

\* A priority has passed through once its job emitted its fragment or ended
\* without one.
Emitted(js, p) ==
    p + 1 \in DOMAIN js /\ js[p + 1].state \in {"draining", "done"}

\* The fragments the writer may pop: the least priority of the heap, once all
\* lower priorities have passed through.
drain_next(hp, js) ==
    {f \in hp : /\ \A g \in hp : f.priority <= g.priority
                /\ \A p \in 0..(f.priority - 1) : Emitted(js, p)}

\* make_stream_response.write: the wrapped write swallows ConnectionResetError
\* and dumps to the cache buffer when the write went through; passed counts
\* the calls (history).
stream_write(resp, buffer, data, ok) ==
    IF ok /\ ~resp.reset
    THEN [resp |-> [resp EXCEPT !.wire.data = Append(resp.wire.data, data),
                                !.passed = @ + 1],
          buffer |-> Append(buffer, data)]
    ELSE [resp |-> [resp EXCEPT !.reset = TRUE, !.passed = @ + 1], buffer |-> buffer]

\* The writer task: pop the next fragment, prepare the response on the first
\* one (status 200), write it to the wire and the cache buffer.
DrainWrite ==
    /\ pc \in {"dispatch", "join"}
    /\ ~response.eof
    /\ \E f \in drain_next(heap, jobs) :
         \E ok \in BOOLEAN :
            LET w == stream_write([response EXCEPT !.prepared = TRUE], cache_buffer, f, ok)
            IN /\ heap' = heap \ {f}
               /\ response' = w.resp
               /\ cache_buffer' = w.buffer
               /\ status' = 200
    /\ UNCHANGED <<gc_calls, config, catalogue, budget_backend, cache_backend, endpoint_methods, budget, cache, origin, nreq, req, pc, await_on_close, fin, e_ratio,
                   parse, routed_urls, routes, routed, pending, jobs, routing_reqs,
                   endpoint_reqs, crawl, split, worker, handler>>

\* join(): every expected priority has passed through the Drain.
JoinComplete ==
    /\ pending = <<>>
    /\ \A j \in DOMAIN jobs : jobs[j].state = "done"
    /\ heap = {}

(***************************************************************************)
(* BaseRequestProcessor._join_with_exception_handling                      *)
(***************************************************************************)
\* Variant: a timeout is not told from a join.
join_status_timeout_nodata(timed_out, prepared, r) ==
    IF ~prepared THEN nodata(r) ELSE 0

\* Variant: without the check after the try block.
join_status_no_nodata(timed_out, prepared, r) ==
    IF timed_out /\ ~prepared THEN 413 ELSE 0

\* The status of the FDSNHTTPError raised, or 0 when it returns.
join_status(timed_out, prepared, r) ==
    IF timed_out /\ ~prepared THEN 413
    ELSE IF ~prepared THEN nodata(r)
    ELSE 0

\* Variant: only the workers held back by the Drain are cancelled.
CancelJobs_draining_only(js) ==
    [j \in DOMAIN js |->
       IF js[j].state = "draining" THEN [js[j] EXCEPT !.state = "cancelled"]
       ELSE js[j]]

\* task.cancel() for every task, and the gather that awaits them: no worker
\* is in flight afterwards.
CancelJobs(js) ==
    [j \in DOMAIN js |->
       IF js[j].state \in {"running", "draining"} THEN [js[j] EXCEPT !.state = "cancelled"]
       ELSE js[j]]

\* queue.join() returns within streaming_timeout.
JoinReturn ==
    /\ pc = "join"
    /\ JoinComplete
    /\ IF join_status(FALSE, response.prepared, req) # 0
       THEN /\ status' = join_status(FALSE, response.prepared, req)
            /\ pc' = "errored"
            /\ UNCHANGED response
       ELSE /\ response' = [response EXCEPT !.eof = TRUE]
            /\ pc' = "finalize"
            /\ UNCHANGED status
    /\ UNCHANGED <<gc_calls, config, catalogue, budget_backend, cache_backend, endpoint_methods, budget, cache, origin, nreq, req, await_on_close, fin, e_ratio, parse,
                   routed_urls, routes, routed, pending, jobs, heap, cache_buffer,
                   routing_reqs, endpoint_reqs, crawl, split, worker, handler>>

\* asyncio.TimeoutError: streaming_timeout passes before queue.join() returns.
StreamingTimeout ==
    /\ pc = "join"
    /\ ~JoinComplete
    /\ IF join_status(TRUE, response.prepared, req) # 0
       THEN /\ status' = join_status(TRUE, response.prepared, req)
            /\ pc' = "errored"
            /\ jobs' = CancelJobs(jobs)
            /\ UNCHANGED response
       ELSE /\ response' = [response EXCEPT !.eof = TRUE]
            /\ pc' = "finalize"
            /\ UNCHANGED <<status, jobs>>
    /\ UNCHANGED <<gc_calls, config, catalogue, budget_backend, cache_backend, endpoint_methods, budget, cache, origin, nreq, req, await_on_close, fin, e_ratio, parse,
                   routed_urls, routes, routed, pending, heap, cache_buffer,
                   routing_reqs, endpoint_reqs, crawl, split, worker, handler>>

\* The awaits of the cached wrapper and of federate() before finalize: a
\* CancelledError raised at one of them leaves federate().
CancellablePcs == {"start", "route", "emerge", "make_response", "dispatch", "join"}

\* The request's task is cancelled (the client went away): nothing in the
\* wrapper or in federate() catches the CancelledError, the Pool cancels its
\* workers, and the caller waiting in submit() gets the cancellation.
Cancel ==
    /\ pc \in CancellablePcs
    /\ pc' = "cancelled"
    /\ jobs' = CancelJobs(jobs)
    /\ UNCHANGED <<gc_calls, config, catalogue, budget_backend, cache_backend, endpoint_methods, budget, cache, origin, nreq, req, status,
                   await_on_close, fin, e_ratio, parse, routed_urls, routes, routed, pending,
                   heap, response, cache_buffer, routing_reqs, endpoint_reqs, crawl, split, worker, handler>>

(***************************************************************************)
(* BaseRequestProcessor.finalize                                           *)
(***************************************************************************)
\* _gc_response_code_stats: one gc_cretry_budget(url) for each element of the
\* set self._routed_urls; the calls made, per URL.
gc_response_code_stats(urls) == [u \in URLs |-> IF u \in urls THEN 1 ELSE 0]

\* Variant: finalize is run on the error paths as well.
finalize_due_on_error(at) == at \in {"finalize", "errored", "cancelled"}

\* federate: finalize is awaited (shielded) once _make_response has returned.
finalize_due(at) == at = "finalize"

\* One coroutine of self._await_on_close, in list order (set_cache,
\* _gc_response_code_stats with one gc_cretry_budget per routed URL,
\* _teardown_tasks); federate() returns the response after the last one. A
\* gc_cretry_budget whose backing store fails collects nothing and raises
\* nothing (ClientRetryBudgetMixin).  The loop of finalize has no handler: a
\* coroutine that raises ends finalize, and federate, with its exception.
Finalize ==
    /\ finalize_due(pc)
    /\ Len(fin) < Len(await_on_close)
    /\ LET coro == await_on_close[Len(fin) + 1]
       IN /\ fin' = Append(fin, coro.step)
          /\ IF coro.step = "set_cache"
             THEN \E ok \in BackendOutcomes(cache_backend) :
                    LET stored == cache_store(cache, coro.key, cache_buffer, config.compress, ok)
                    IN /\ cache' = stored.store
                       /\ origin' =
                              IF ok
                              THEN [origin EXCEPT
                                      ![RequestId(req)] = Identity(response.wire.data)]
                              ELSE origin
                       /\ cache_backend' =
                              IF ok THEN cache_backend
                              ELSE [cache_backend EXCEPT !.failed = @ \cup {"set"}]
                       /\ UNCHANGED budget_backend
                       /\ IF stored.raised \/ (~ok /\ cache_backend.raises)
                          THEN status' = 500 /\ pc' = "errored"
                          ELSE /\ UNCHANGED status
                               /\ pc' = IF Len(fin) + 1 = Len(await_on_close)
                                        THEN "done" ELSE "finalize"
             ELSE /\ UNCHANGED <<cache, origin, cache_backend>>
                  /\ IF coro.step = "gc"
                     THEN \E ok \in (IF routed_urls = {} THEN {TRUE}
                                     ELSE BackendOutcomes(budget_backend)) :
                            /\ budget_backend' =
                                   IF ok THEN budget_backend
                                   ELSE [budget_backend EXCEPT !.failed = @ \cup {"gc"}]
                            /\ UNCHANGED status
                            /\ pc' = IF Len(fin) + 1 = Len(await_on_close)
                                     THEN "done" ELSE "finalize"
                     ELSE /\ UNCHANGED <<budget_backend, status>>
                          /\ pc' = IF Len(fin) + 1 = Len(await_on_close)
                                   THEN "done" ELSE "finalize"
          /\ IF coro.step = "teardown"
             THEN jobs' = CancelJobs(jobs)
             ELSE UNCHANGED jobs
          /\ gc_calls' = IF coro.step = "gc" THEN gc_response_code_stats(routed_urls)
                        ELSE gc_calls
    /\ UNCHANGED <<config, catalogue, endpoint_methods, budget, nreq, req, await_on_close, e_ratio, parse, routed_urls,
                   routes, routed, pending, heap, response, cache_buffer, routing_reqs,
                   endpoint_reqs, crawl, split, worker, handler>>

(***************************************************************************)
(* The federator process: requests one after the other.                    *)
(***************************************************************************)
Requests ==
    [post : BOOLEAN, query_params : QueryParams, ses : ClientStreamEpochs]

NewRequest ==
    /\ pc \in {"idle", "done", "errored", "cancelled"}
    /\ nreq > 0
    /\ nreq' = nreq - 1
    /\ \E r \in Requests :
         /\ req' = r
         /\ pc' = "start"
         /\ status' = 0
         /\ await_on_close' =
                <<[step |-> "gc", key |-> NoKey], [step |-> "teardown", key |-> NoKey]>>
         /\ fin' = <<>>
         /\ e_ratio' = [u \in URLs |-> Unread]
         /\ parse' = InitParse
         /\ routed_urls' = {}
         /\ gc_calls' = NoGc
         /\ routes' = <<>>
         /\ routed' = [total |-> 0, longest |-> 0]
         /\ pending' = <<>>
         /\ jobs' = <<>>
         /\ heap' = {}
         /\ response' = InitResponse
         /\ cache_buffer' = <<>>
         /\ routing_reqs' = <<>>
         /\ endpoint_reqs' = {}
         /\ budget' = {}
         /\ endpoint_methods' = {}
         /\ cache_backend' = [cache_backend EXCEPT !.failed = {}]
         /\ budget_backend' = [budget_backend EXCEPT !.failed = {}]
    /\ UNCHANGED <<config, catalogue, cache, origin, crawl, split, worker, handler>>

(***************************************************************************)
(* AvailabilityAsyncWorker: the jobs run on one worker one after the       *)
(* other, each _fetch recorded.                                            *)
(***************************************************************************)
\* _fetch: the handler it awaits for an answer, "none" when it awaits none.
\* raise_for_status() raises for every status from 400 on, so the branch for
\* the no-content codes is reached by a status below 400 only.
fetch_handler(answer) ==
    IF answer.exc # "none" THEN "_handle_error"
    ELSE IF answer.status >= 400
         THEN IF answer.status = 413 THEN "_handle_413" ELSE "_handle_error"
    ELSE IF answer.status # 200
         THEN IF answer.status \in FDSNWS_NO_CONTENT_CODES THEN "none"
              ELSE "_handle_error"
    ELSE "none"

NoAnswer == [exc |-> "pending", status |-> 0, body |-> "empty"]

\* Jobs run on one worker.
MaxRuns == 2

\* A worker that was given no job: __init__ has set self._buf = {}.  run
\* numbers the jobs (history), fragment is what the job handed to the Drain.
IdleRun ==
    [pc |-> "idle", run |-> 0, routes |-> <<>>, answers |-> <<>>, handlers |-> <<>>,
     updates |-> <<>>, returned |-> <<>>, buf |-> <<>>, fragment |-> <<>>,
     drained |-> FALSE]

\* What an endpoint may answer a worker: EndpointAnswers, and a body the read
\* of which fails with an error other than a timeout.
RunAnswers ==
    EndpointAnswers \cup {[exc |-> "none", status |-> 200, body |-> "read_error"]}

\* _parse_response: TRUE when resp.read() raises an exception other than
\* asyncio.TimeoutError, which it does not catch.
parse_response_raises(answer) ==
    fetch_returns_resp(answer) /\ answer.body = "read_error"

\* An entry of self._buf: the data of a route of a job.
BufEntry(run, i) == [run |-> run, route |-> i]

\* run up to gather: self._buf is neither read nor written.
run_start_buf(buf) == buf

\* finalize
worker_finalize(buf) == <<>>

InitRun == worker = IdleRun

\* The jobs a worker is given: one or two granular routes, by their URLs.
RunRoutes == {<<u>> : u \in URLs} \cup {<<u, v>> : u \in URLs, v \in URLs}

\* One task of gather: _fetch of a route, up to its return.
RunFetch ==
    /\ worker.pc = "gather"
    /\ \E i \in DOMAIN worker.routes :
         /\ worker.answers[i] = NoAnswer
         /\ \E answer \in RunAnswers :
              worker' = [worker EXCEPT
                           !.answers[i] = answer,
                           !.handlers[i] = fetch_handler(answer),
                           !.updates[i] = fetch_budget_update(worker.routes[i], answer),
                           !.returned[i] = IF fetch_returns_resp(answer)
                                           THEN "resp" ELSE "None"]
    /\ UNCHANGED <<fedvars, crawl, split>>

\* gather has returned: the loop over the results adds to _buf what
\* _parse_response returns, up to the first result whose read raises; the
\* buffer is serialized and handed to the Drain if it is not empty, otherwise
\* finalize follows at once.
RunGathered ==
    /\ worker.pc = "gather"
    /\ \A i \in DOMAIN worker.routes : worker.answers[i] # NoAnswer
    /\ LET raising == {i \in DOMAIN worker.routes : parse_response_raises(worker.answers[i])}
           read == {i \in DOMAIN worker.routes : \A k \in raising : i < k}
           idx == SelectSeq([i \in DOMAIN worker.routes |-> i],
                            LAMBDA i : i \in read /\ parse_response(worker.answers[i]))
           buf == worker.buf \o [k \in DOMAIN idx |-> BufEntry(worker.run, idx[k])]
       IN IF raising # {}
          THEN worker' = [worker EXCEPT !.buf = buf, !.pc = "failed"]
          ELSE IF buf # <<>>
               THEN worker' = [worker EXCEPT !.buf = buf, !.fragment = buf,
                                             !.drained = TRUE, !.pc = "drain"]
               ELSE worker' = [worker EXCEPT !.buf = worker_finalize(buf), !.pc = "done"]
    /\ UNCHANGED <<fedvars, crawl, split>>

\* drain() has returned: finalize.
RunDrained ==
    /\ worker.pc = "drain"
    /\ worker' = [worker EXCEPT !.buf = worker_finalize(worker.buf), !.pc = "done"]
    /\ UNCHANGED <<fedvars, crawl, split>>

\* The task is cancelled while it awaits drain(): finalize is not reached.
RunCancelled ==
    /\ worker.pc = "drain"
    /\ worker' = [worker EXCEPT !.pc = "cancelled"]
    /\ UNCHANGED <<fedvars, crawl, split>>

\* The worker is given its next job.
RunAgain ==
    /\ worker.pc \in {"done", "failed", "cancelled"}
    /\ worker.run < MaxRuns
    /\ \E rs \in RunRoutes :
         worker' = [IdleRun EXCEPT
                      !.pc = "gather", !.run = worker.run + 1, !.routes = rs,
                      !.answers = [i \in DOMAIN rs |-> NoAnswer],
                      !.handlers = [i \in DOMAIN rs |-> "none"],
                      !.updates = [i \in DOMAIN rs |-> {}],
                      !.returned = [i \in DOMAIN rs |-> "pending"],
                      !.buf = run_start_buf(worker.buf)]
    /\ UNCHANGED <<fedvars, crawl, split>>

(***************************************************************************)
(* utils/request.py: the handlers building the routing request and the     *)
(* endpoint requests.  A mapping of query parameters is a function from    *)
(* parameter names to values, a URL path a sequence of characters.         *)
(***************************************************************************)
FDSNWS_QUERY_METHOD_TOKEN == <<"q", "u", "e", "r", "y">>

RECURSIVE rstrip(_, _)
\* str.rstrip(chars): the trailing characters that are in chars are removed.
rstrip(str, chars) ==
    IF str # <<>> /\ str[Len(str)] \in chars
    THEN rstrip(SubSeq(str, 1, Len(str) - 1), chars)
    ELSE str

\* Variant: the path is kept as it is given.
handler_path_unstripped(path) == path

\* RequestHandlerBase.__init__: self._path.
handler_path(path) == rstrip(rstrip(path, Range(FDSNWS_QUERY_METHOD_TOKEN)), {"/"})

\* RequestHandlerBase.url: the path of the request URL.
handler_url(path) == handler_path(path) \o <<"/">> \o FDSNWS_QUERY_METHOD_TOKEN

\* RoutingRequestHandler.QUERY_PARAMS
RoutingQueryParams ==
    {"service", "level", "minlatitude", "minlat", "maxlatitude", "maxlat",
     "minlongitude", "minlon", "maxlongitude", "maxlon"}

\* FdsnRequestHandler.QUERY_PARAMS
FdsnQueryParams ==
    {"service", "nodata", "minlatitude", "minlat", "maxlatitude", "maxlat",
     "minlongitude", "minlon", "maxlongitude", "maxlon"}

\* The mapping params with params[name] = value set.
SetParam(params, name, value) ==
    [p \in DOMAIN params \cup {name} |-> IF p = name THEN value ELSE params[p]]

\* self._query_params of RequestHandlerBase.__init__: the parameters passing
\* _filter_query_params.
filter_query_params(query_params, passing) ==
    [p \in DOMAIN query_params \cap passing |-> query_params[p]]

\* RoutingRequestHandler: the parameters in QUERY_PARAMS, format=post and
\* access (no proxy_netloc is given by _route).
routing_query_params(query_params, access) ==
    SetParam(SetParam(filter_query_params(query_params, RoutingQueryParams),
                      "format", "post"),
             "access", access)

\* Variant: the endpoint handler drops what the routing handler keeps.
fdsn_filter_not_routing(query_params) ==
    filter_query_params(query_params, DOMAIN query_params \ RoutingQueryParams)

\* FdsnRequestHandler._filter_query_params: the parameters outside QUERY_PARAMS.
fdsn_filter(query_params) ==
    filter_query_params(query_params, DOMAIN query_params \ FdsnQueryParams)

\* FdsnRequestHandler as _fetch builds it: the filtered parameters with format
\* set to self.format.
fdsn_query_params(query_params, format) ==
    SetParam(fdsn_filter(query_params), "format", format)

\* BaseRequestProcessor.ACCESS
ACCESS == "any"

\* Names of query parameters a client sends.
ParamNames == {"service", "level", "nodata", "minlatitude", "format", "merge"}

\* Formats of the availability service.
Formats == {"text", "geocsv"}

\* The client's query parameters: format is the value self.format returns.
ClientParams(format) ==
    UNION {[names -> {"v"}] : names \in SUBSET (ParamNames \ {"format"})}
    \cup UNION {{SetParam(f, "format", format) : f \in [names -> {"v"}]} :
                  names \in SUBSET (ParamNames \ {"format"})}

\* Paths of the URLs the routing service names, ending in "/query".
RoutePaths ==
    { <<"/", "a", "/", "1", "/">> \o FDSNWS_QUERY_METHOD_TOKEN,
      <<"/", "r", "y", "/", "1", "/">> \o FDSNWS_QUERY_METHOD_TOKEN,
      <<"/", "q", "u", "e", "r", "y", "/">> \o FDSNWS_QUERY_METHOD_TOKEN }

\* A processor is constructed for a client's request.
HandlerNew ==
    /\ handler.pc = "idle"
    /\ \E format \in Formats : \E qp \in ClientParams(format) :
         handler' = [handler EXCEPT !.pc = "route", !.query_params = qp, !.format = format]
    /\ UNCHANGED <<procvars, crawl, split, worker>>

\* _route: the RoutingRequestHandler of the request.
HandlerRoute ==
    /\ handler.pc = "route"
    /\ \E path \in RoutePaths :
         handler' = [handler EXCEPT
                        !.pc = "fetch", !.path = path,
                        !.routing = routing_query_params(handler.query_params, ACCESS)]
    /\ UNCHANGED <<procvars, crawl, split, worker>>

\* _fetch: the FdsnRequestHandler of a route.
HandlerFetch ==
    /\ handler.pc = "fetch"
    /\ handler' = [handler EXCEPT
                      !.pc = "sent",
                      !.endpoint = fdsn_query_params(handler.query_params, handler.format),
                      !.url = handler_url(handler.path)]
    /\ UNCHANGED <<procvars, crawl, split, worker>>

(***************************************************************************)
(* The splitting worker of fdsnws-dataselect: one route (one stream epoch  *)
(* at one endpoint), split on 413.                                         *)
(***************************************************************************)
\* The longest window a client asks for.
MaxSplitLength == 8

\* splitting_factor: at least 2.
SplittingFactors == {2, 3}

\* The floor: a window no longer than this is not split further.
SplitFloor == 1

Epoch(start, end) == [start |-> start, end |-> end]
EpochDuration(e) == e.end - e.start

\* Variant: the last sub-epoch is left out.
split_epoch_drop_last(e, k) ==
    LET bound(i) == e.start + (i * EpochDuration(e)) \div k
        all == [i \in 1..(k - 1) |-> Epoch(bound(i - 1), bound(i))]
    IN SelectSeq(all, LAMBDA x : EpochDuration(x) > 0)

\* Variant: the window is requested again as it is.
split_epoch_whole(e, k) == <<e>>

\* The window cut into splitting_factor equal sub-epochs, in chronological
\* order; a sub-epoch of no duration is not requested.
split_epoch(e, k) ==
    LET bound(i) == e.start + (i * EpochDuration(e)) \div k
        all == [i \in 1..k |-> Epoch(bound(i - 1), bound(i))]
    IN SelectSeq(all, LAMBDA x : EpochDuration(x) > 0)

\* Variant: the sub-epochs wait behind the epochs already due.
split_submit_behind(stack, subs) == Tail(stack) \o subs

\* Each sub-epoch is submitted recursively: the sub-epochs of the epoch just
\* answered are requested before the epochs still due.
split_submit(stack, subs) == subs \o Tail(stack)

\* What the endpoint may answer to a sub-request.
SplitAnswers == {200, 413}

NoSplit == [of |-> Epoch(0, 0), into |-> <<>>]

IdleSplit ==
    [pc |-> "idle", splitting_factor |-> 2, whole |-> Epoch(0, 0), stack |-> <<>>,
     calls |-> <<>>, body |-> <<>>, last |-> NoSplit]

InitSplit == split = IdleSplit

\* One endpoint request for the epoch due next. 200: its payload is appended
\* to the body. 413: the epoch is split and its sub-epochs submitted, or
\* abandoned at the floor.
SplitRequest ==
    /\ split.pc = "run"
    /\ split.stack # <<>>
    /\ LET e == Head(split.stack)
       IN \E answer \in SplitAnswers :
            LET call == [epoch |-> e, status |-> answer]
                subs == split_epoch(e, split.splitting_factor)
            IN IF answer = 200
               THEN split' = [split EXCEPT !.calls = Append(@, call),
                                           !.body = Append(@, e),
                                           !.stack = Tail(@)]
               ELSE IF EpochDuration(e) > SplitFloor
               THEN split' = [split EXCEPT !.calls = Append(@, call),
                                           !.stack = split_submit(@, subs),
                                           !.last = [of |-> e, into |-> subs]]
               ELSE split' = [split EXCEPT !.calls = Append(@, call),
                                           !.stack = Tail(@)]
    /\ UNCHANGED <<fedvars, crawl, worker>>

\* No epoch is due any more: the worker drains the body and returns.
SplitReturn ==
    /\ split.pc = "run"
    /\ split.stack = <<>>
    /\ split' = [split EXCEPT !.pc = "done"]
    /\ UNCHANGED <<fedvars, crawl, worker>>

(***************************************************************************)
(* The crawler (CrawlFDSNWSStationApp).                                    *)
(***************************************************************************)
\* ExitCodes
EXIT_SUCCESS == "EXIT_SUCCESS"
EXIT_ERROR == "EXIT_ERROR"

AllLevels == <<"network", "station", "channel", "response">>

\* Crawler configurations: worker_pool_size, the levels and the formats.
CrawlConfigs ==
    [worker_pool_size : {1, 2},
     level : {SubSeq(AllLevels, p[1], p[2]) :
                p \in {q \in (DOMAIN AllLevels) \X (DOMAIN AllLevels) :
                          q[2] >= q[1] /\ q[2] - q[1] < MaxCrawlLevels}},
     format : {<<"xml", "text">>}]

\* The crawler before run(): nothing requested, no job submitted.
IdleCrawl ==
    [pc |-> "idle", cfg |-> CHOOSE c \in CrawlConfigs : TRUE, lock |-> "free",
     got_pid_lock |-> FALSE, level |-> 1, todo |-> 0, running |-> 0, finished |-> 0,
     cancelled |-> 0, failed |-> FALSE, stream_epochs_received |-> FALSE,
     routing_reqs |-> 0, exit_code |-> "unset", raised |-> "none", released |-> 0]

\* InterProcessLock.acquire(blocking=False): TRUE when the lock was free.
pid_lock_acquire(lock) == lock = "free"

\* Variant: without "if not got_pid_lock: raise AlreadyCrawling".
get_pid_lock_no_raise(got_pid_lock) == TRUE

\* _get_pid_lock: TRUE when it returns, FALSE when it raises AlreadyCrawling.
get_pid_lock(got_pid_lock) == got_pid_lock

\* _get_pid_lock at the head of run(): AlreadyCrawling is an Error, run() logs
\* it, sets EXIT_ERROR and goes to its finally block.
CrawlGetPidLock ==
    /\ crawl.pc = "start"
    /\ LET got_pid_lock == pid_lock_acquire(crawl.lock)
       IN IF get_pid_lock(got_pid_lock)
          THEN crawl' = [crawl EXCEPT !.lock = IF got_pid_lock THEN "self" ELSE @,
                                      !.got_pid_lock = got_pid_lock,
                                      !.pc = "level"]
          ELSE crawl' = [crawl EXCEPT !.exit_code = EXIT_ERROR,
                                      !.raised = "AlreadyCrawling",
                                      !.pc = "finally"]
    /\ UNCHANGED <<fedvars, split, worker>>

\* Another crawler process started with the same PID file: its _get_pid_lock
\* succeeds when the lock is free, and it crawls while it holds the lock.
CrawlOtherAcquire ==
    /\ pid_lock_acquire(crawl.lock)
    /\ crawl' = [crawl EXCEPT !.lock = "other"]
    /\ UNCHANGED <<fedvars, split, worker>>

\* The finally block of the other process: pid_lock.release().
CrawlOtherRelease ==
    /\ crawl.lock = "other"
    /\ crawl' = [crawl EXCEPT !.lock = "free"]
    /\ UNCHANGED <<fedvars, split, worker>>

\* _crawl: the number of pool.submit calls for the stream epochs of a level;
\* format text is skipped for level response.
crawl_submissions(cfg, level, n) ==
    n * Cardinality({i \in DOMAIN cfg.format :
                       ~(cfg.format[i] = "text" /\ level = "response")})

\* The loop over the levels inside the Pool block: _emerge_stream_epochs asks
\* the routing service; an answer other than 200 raises RoutingError, a
\* request that fails raises the ClientError of session.get.
CrawlEmerge ==
    /\ crawl.pc = "level"
    /\ crawl.level <= Len(crawl.cfg.level)
    /\ \E ok \in BOOLEAN, n \in 0..MaxCrawlEpochs :
         IF ~ok
         THEN /\ n = 0
              /\ \E exc \in {"RoutingError", "ClientError"} :
                   crawl' = [crawl EXCEPT !.routing_reqs = 1, !.failed = TRUE,
                                          !.raised = exc, !.pc = "aexit"]
         ELSE IF n = 0
         THEN crawl' = [crawl EXCEPT !.routing_reqs = 1, !.level = @ + 1]
         ELSE crawl' = [crawl EXCEPT
                          !.routing_reqs = 1,
                          !.todo = crawl_submissions(crawl.cfg, crawl.cfg.level[crawl.level], n),
                          !.pc = "crawl"]
    /\ UNCHANGED <<fedvars, split, worker>>

\* await pool.submit(...) of _crawl; after the last one run() sets
\* stream_epochs_received and turns to the next level.
CrawlSubmit ==
    /\ crawl.pc = "crawl"
    /\ crawl.todo > 0
    /\ pool_has_room(crawl.running, crawl.cfg.worker_pool_size)
    /\ crawl' = [crawl EXCEPT
                   !.running = @ + 1,
                   !.todo = @ - 1,
                   !.stream_epochs_received = IF crawl.todo = 1 THEN TRUE ELSE @,
                   !.level = IF crawl.todo = 1 THEN @ + 1 ELSE @,
                   !.pc = IF crawl.todo = 1 THEN "level" ELSE "crawl"]
    /\ UNCHANGED <<fedvars, split, worker>>

\* The end of the loop over the levels: run() reaches the end of the Pool block.
CrawlLevelsDone ==
    /\ crawl.pc = "level"
    /\ crawl.level > Len(crawl.cfg.level)
    /\ crawl' = [crawl EXCEPT !.pc = "aexit"]
    /\ UNCHANGED <<fedvars, split, worker>>

\* _request_worker: the request to the federator ends (any status, a transport
\* error or a timeout), nothing is raised.
CrawlWorkerDone ==
    /\ crawl.running > 0
    /\ crawl' = [crawl EXCEPT !.running = @ - 1, !.finished = @ + 1]
    /\ UNCHANGED <<fedvars, split, worker>>

\* Leaving the Pool block with an exception cancels a job in flight.
CrawlWorkerCancel ==
    /\ crawl.pc = "aexit"
    /\ crawl.failed
    /\ crawl.running > 0
    /\ crawl' = [crawl EXCEPT !.running = @ - 1, !.cancelled = @ + 1]
    /\ UNCHANGED <<fedvars, split, worker>>

\* Variant: join() does not wait.
pool_joined_at_once(running) == TRUE

\* Pool.join(): no submitted job is in flight any more.
pool_joined(running) == running = 0

\* Leaving the "async with Pool" block, then the end of the try block of run().
CrawlPoolExit ==
    /\ crawl.pc = "aexit"
    /\ pool_joined(crawl.running)
    /\ crawl' = [crawl EXCEPT
                   !.exit_code = IF crawl.failed THEN EXIT_ERROR ELSE EXIT_SUCCESS,
                   !.pc = "finally"]
    /\ UNCHANGED <<fedvars, split, worker>>

\* Variant: pid_lock.release() without "if got_pid_lock".
finally_releases_unchecked(got_pid_lock) == TRUE

\* "if got_pid_lock: pid_lock.release()"; after AlreadyCrawling the name is
\* unbound in run() and the NameError is passed over.
finally_releases(got_pid_lock) == got_pid_lock

\* The finally block of run(): release the lock if it was acquired; sys.exit.
\* released counts the calls of pid_lock.release().
CrawlFinally ==
    /\ crawl.pc = "finally"
    /\ LET releases == finally_releases(crawl.got_pid_lock)
       IN crawl' = [crawl EXCEPT
                      !.lock = IF releases THEN "free" ELSE @,
                      !.released = IF releases THEN @ + 1 ELSE @,
                      !.pc = "exited"]
    /\ UNCHANGED <<fedvars, split, worker>>

InitCrawl == crawl = IdleCrawl

\* A crawler process about to run, the PID file locked by another process or not.
InitCrawler ==
    /\ \E cfg \in CrawlConfigs, lock \in {"free", "other"} :
         crawl = [IdleCrawl EXCEPT !.pc = "start", !.cfg = cfg, !.lock = lock]
    /\ config \in Configs
    /\ catalogue = [urls |-> URLs, rows |-> Rows]
    /\ cache = [k \in CacheKeys |-> NoEntry]
    /\ origin = [r \in RequestIds |-> NoEntry]
    /\ nreq = 0
    /\ InitProcessor
    /\ InitRun
    /\ InitBackend
    /\ InitSplit

NextCrawl ==
    \/ CrawlGetPidLock
    \/ CrawlEmerge
    \/ CrawlSubmit
    \/ CrawlLevelsDone
    \/ CrawlWorkerDone
    \/ CrawlWorkerCancel
    \/ CrawlPoolExit
    \/ CrawlFinally
    \/ CrawlOtherAcquire
    \/ CrawlOtherRelease

SpecCrawl == InitCrawler /\ [][NextCrawl]_vars

\* The event loop runs every task that is ready: jobs in flight end (requests
\* have a total timeout) and a join that can return does.
SpecCrawlFair ==
    SpecCrawl /\ WF_vars(CrawlWorkerDone) /\ WF_vars(CrawlPoolExit)

\* A worker about to fetch one stream epoch.
InitSplitter ==
    /\ \E k \in SplittingFactors, t0 \in {0, 1}, L \in 1..MaxSplitLength :
         split = [IdleSplit EXCEPT !.pc = "run", !.splitting_factor = k,
                                   !.whole = Epoch(t0, t0 + L),
                                   !.stack = <<Epoch(t0, t0 + L)>>]
    /\ config \in Configs
    /\ catalogue = [urls |-> URLs, rows |-> Rows]
    /\ cache = [k \in CacheKeys |-> NoEntry]
    /\ origin = [r \in RequestIds |-> NoEntry]
    /\ nreq = 0
    /\ InitProcessor
    /\ InitRun
    /\ InitBackend
    /\ InitCrawl

NextSplit ==
    \/ SplitRequest
    \/ SplitReturn

SpecSplit == InitSplitter /\ [][NextSplit]_vars

\* Every sub-request is answered or times out, and the worker goes on.
SpecSplitFair == SpecSplit /\ WF_vars(NextSplit)

\* A federator about to serve one request over the whole catalogue.
Init ==
    /\ config \in Configs
    /\ catalogue = [urls |-> URLs, rows |-> Rows]
    /\ cache = [k \in CacheKeys |-> NoEntry]
    /\ origin = [r \in RequestIds |-> NoEntry]
    /\ nreq = 1
    /\ InitProcessor
    /\ InitRun
    /\ InitBackend
    /\ InitCrawl
    /\ InitSplit

\* A federator about to serve MaxRequests requests over a catalogue of one
\* endpoint and one row.
InitCache ==
    /\ config \in Configs
    /\ catalogue = [urls |-> {"u1"}, rows |-> {r \in Rows : r.net = "N1" /\ r.sta = "A"}]
    /\ cache = [k \in CacheKeys |-> NoEntry]
    /\ origin = [r \in RequestIds |-> NoEntry]
    /\ nreq = MaxRequests
    /\ InitProcessor
    /\ InitRun
    /\ InitBackend
    /\ InitCrawl
    /\ InitSplit

\* As InitCache, the Cache's backing store failing at will.
InitCacheFault ==
    /\ config \in Configs
    /\ catalogue = [urls |-> {"u1"}, rows |-> {r \in Rows : r.net = "N1" /\ r.sta = "A"}]
    /\ cache = [k \in CacheKeys |-> NoEntry]
    /\ origin = [r \in RequestIds |-> NoEntry]
    /\ nreq = MaxRequests
    /\ InitProcessor
    /\ InitRun
    /\ cache_backend = [HealthyBackend EXCEPT !.faulty = TRUE]
    /\ budget_backend = HealthyBackend
    /\ InitCrawl
    /\ InitSplit

\* A federator about to serve one request over a catalogue of one endpoint
\* and one row, the RetryBudget's backing store failing at will.
InitBudgetFault ==
    /\ config \in Configs
    /\ catalogue = [urls |-> {"u1"}, rows |-> {r \in Rows : r.net = "N1" /\ r.sta = "A"}]
    /\ cache = [k \in CacheKeys |-> NoEntry]
    /\ origin = [r \in RequestIds |-> NoEntry]
    /\ nreq = 1
    /\ InitProcessor
    /\ InitRun
    /\ cache_backend = HealthyBackend
    /\ budget_backend = [HealthyBackend EXCEPT !.faulty = TRUE]
    /\ InitCrawl
    /\ InitSplit

\* A federator about to serve one request over a catalogue of one endpoint
\* and one row; the lookups of the Cache find nothing, and its write may fail
\* with an exception that set_cache passes on to finalize.
InitFinalizeFault ==
    /\ config \in Configs
    /\ catalogue = [urls |-> {"u1"}, rows |-> {r \in Rows : r.net = "N1" /\ r.sta = "A"}]
    /\ cache = [k \in CacheKeys |-> NoEntry]
    /\ origin = [r \in RequestIds |-> NoEntry]
    /\ nreq = 1
    /\ InitProcessor
    /\ InitRun
    /\ cache_backend = [HealthyBackend EXCEPT !.faulty = TRUE, !.raises = TRUE]
    /\ budget_backend = HealthyBackend
    /\ InitCrawl
    /\ InitSplit

\* A service configured without limits on the stream epoch durations.
UnlimitedConfig ==
    [pool_size |-> 0, endpoint_connection_limit |-> 2,
     max_stream_epoch_duration |-> None, max_total_stream_epoch_duration |-> None,
     client_retry_budget_threshold |-> 1, compress |-> FALSE,
     endpoint_request_method |-> "GET"]

\* A federator without duration limits about to serve one request over one
\* endpoint and the rows of one station code.
InitExtent ==
    /\ config = UnlimitedConfig
    /\ catalogue = [urls |-> {"u1"}, rows |-> {r \in Rows : r.sta = "A"}]
    /\ cache = [k \in CacheKeys |-> NoEntry]
    /\ origin = [r \in RequestIds |-> NoEntry]
    /\ nreq = 1
    /\ InitProcessor
    /\ InitRun
    /\ InitBackend
    /\ InitCrawl
    /\ InitSplit

\* A worker about to run a job.
InitWorker ==
    /\ \E rs \in RunRoutes :
         worker = [IdleRun EXCEPT
                     !.pc = "gather", !.run = 1, !.routes = rs,
                     !.answers = [i \in DOMAIN rs |-> NoAnswer],
                     !.handlers = [i \in DOMAIN rs |-> "none"],
                     !.updates = [i \in DOMAIN rs |-> {}],
                     !.returned = [i \in DOMAIN rs |-> "pending"]]
    /\ config \in Configs
    /\ catalogue = [urls |-> URLs, rows |-> Rows]
    /\ cache = [k \in CacheKeys |-> NoEntry]
    /\ origin = [r \in RequestIds |-> NoEntry]
    /\ nreq = 0
    /\ InitProcessor
    /\ InitBackend
    /\ InitCrawl
    /\ InitSplit

NextRun ==
    \/ RunFetch
    \/ RunGathered
    \/ RunDrained
    \/ RunCancelled
    \/ RunAgain

\* A server that builds the request handlers of one request and serves none.
InitHandler ==
    /\ config \in Configs
    /\ catalogue = [urls |-> URLs, rows |-> Rows]
    /\ cache = [k \in CacheKeys |-> NoEntry]
    /\ origin = [r \in RequestIds |-> NoEntry]
    /\ nreq = 0
    /\ InitProcessor
    /\ InitRun
    /\ InitBackend
    /\ InitCrawl
    /\ InitSplit

NextHandler ==
    \/ HandlerNew
    \/ HandlerRoute
    \/ HandlerFetch

SpecHandler == InitHandler /\ [][NextHandler]_vars

SpecRun == InitWorker /\ [][NextRun]_vars

Next ==
    \/ Cached
    \/ Route
    \/ EmergeUrl
    \/ EmergeBlank
    \/ EmergeRow
    \/ EmergeReturn
    \/ Dispatch
    \/ PoolSubmit
    \/ WorkerFetch
    \/ WorkerDrain
    \/ WorkerReturn
    \/ DrainWrite
    \/ JoinReturn
    \/ StreamingTimeout
    \/ Cancel
    \/ Finalize
    \/ NewRequest

Spec == Init /\ [][Next]_vars

SpecCache == InitCache /\ [][Next]_vars

SpecCacheFault == InitCacheFault /\ [][Next]_vars

SpecBudgetFault == InitBudgetFault /\ [][Next]_vars

SpecFinalizeFault == InitFinalizeFault /\ [][Next]_vars

SpecExtent == InitExtent /\ [][Next]_vars

\* A federator about to serve one request over one endpoint and a station of
\* each of two networks.
InitLive ==
    /\ config \in Configs
    /\ catalogue = [urls |-> {"u1"},
                    rows |-> {r \in Rows : r.sta = "A" /\ r.end # None}]
    /\ cache = [k \in CacheKeys |-> NoEntry]
    /\ origin = [r \in RequestIds |-> NoEntry]
    /\ nreq = 1
    /\ InitProcessor
    /\ InitRun
    /\ InitBackend
    /\ InitCrawl
    /\ InitSplit

\* A step of the processor of the request or of one of its tasks.
ProcessorStep ==
    \/ Cached
    \/ Route
    \/ EmergeUrl
    \/ EmergeBlank
    \/ EmergeRow
    \/ EmergeReturn
    \/ Dispatch
    \/ PoolSubmit
    \/ WorkerFetch
    \/ WorkerDrain
    \/ WorkerReturn
    \/ DrainWrite
    \/ JoinReturn
    \/ StreamingTimeout
    \/ Finalize

\* The event loop runs every task that is ready, every awaited request is
\* answered or times out, and the timer of wait_for fires: the processor and
\* its tasks do not stop while one of them can take a step.
SpecLive == InitLive /\ [][Next]_vars /\ WF_vars(ProcessorStep)

(***************************************************************************)
(* Properties.                                                             *)
(***************************************************************************)
\* The body of all fragments the jobs produced, in priority order.
ExpectedBody(js) ==
    LET idx == SelectSeq([j \in DOMAIN js |-> j], LAMBDA j : Buf(js[j]) # <<>>)
    IN [k \in DOMAIN idx |-> [priority |-> js[idx[k]].priority, data |-> Buf(js[idx[k]])]]

\* C1: the Drain writes fragments in strictly increasing priority order: when
\* the fragment of priority k is on the wire, every priority below k was written
\* before it or its job ended without a fragment; so once the Drain is joined
\* the body is the fragments of the jobs in priority order, whatever order the
\* workers completed in.
C1_DrainOrder ==
    LET w == response.wire.data
    IN ~response.hit =>
         /\ \A i, k \in DOMAIN w : i < k => w[i].priority < w[k].priority
         /\ \A i \in DOMAIN w :
              \A p \in 0..(w[i].priority - 1) :
                 \/ \E h \in 1..(i - 1) : w[h].priority = p
                 \/ /\ p + 1 \in DOMAIN jobs
                    /\ jobs[p + 1].state = "done"
                    /\ Buf(jobs[p + 1]) = <<>>
         /\ (pc \in {"join", "finalize", "done"} /\ JoinComplete /\ ~response.reset)
               => w = ExpectedBody(jobs)

\* Two fragments were written by workers that ran concurrently, and the Drain
\* was joined.
C1_Witness ==
    /\ pc = "finalize"
    /\ JoinComplete
    /\ ~response.reset
    /\ Len(response.wire.data) = 2
    /\ pool_size(config) > 1

\* max_workers of the federator's Pool: the configured pool size, or the
\* endpoint connection limit when none is set.
MaxWorkers ==
    IF config.pool_size # 0 THEN config.pool_size ELSE config.endpoint_connection_limit

\* C2: at most max_workers jobs are in flight; while max_workers jobs are in
\* flight a submit cannot go ahead (its job does not start), otherwise it can.
C2_PoolBound ==
    /\ Cardinality(InFlight(jobs)) <= MaxWorkers
    /\ (pc = "dispatch" /\ pending # <<>>) =>
          (ENABLED PoolSubmit <=> Cardinality(InFlight(jobs)) < MaxWorkers)

\* A submit is held back: max_workers jobs are in flight and a job waits.
C2_Witness ==
    /\ pc = "dispatch"
    /\ pending # <<>>
    /\ Cardinality(InFlight(jobs)) = MaxWorkers
    /\ ~ENABLED PoolSubmit

\* C3: the run leaves the Pool block normally only after every job it
\* submitted has finished, and it does leave it once none is in flight.
C3_PoolJoin ==
    /\ [](crawl.pc \in {"finally", "exited"} /\ crawl.got_pid_lock /\ ~crawl.failed
             => crawl.running = 0 /\ crawl.cancelled = 0)
    /\ ((crawl.pc = "aexit" /\ crawl.running = 0) ~> crawl.pc \in {"finally", "exited"})

\* The crawler left the Pool block after its jobs, more than one, had finished.
C3_Witness ==
    /\ crawl.pc = "finally"
    /\ ~crawl.failed
    /\ crawl.finished >= 2
    /\ crawl.running = 0

\* C4: for a URL whose error ratio read from the RetryBudget is above
\* client_retry_budget_threshold no Route exists anywhere in the request, and no
\* endpoint request is made to it.
C4_BudgetSkip ==
    \A u \in URLs :
       e_ratio[u] > config.client_retry_budget_threshold =>
          /\ \A i \in DOMAIN parse.routes : parse.routes[i].url # u
          /\ \A i \in DOMAIN routes : routes[i].url # u
          /\ \A j \in DOMAIN pending : \A i \in DOMAIN pending[j].routes :
                pending[j].routes[i].url # u
          /\ \A j \in DOMAIN jobs : \A i \in DOMAIN jobs[j].routes :
                jobs[j].routes[i].url # u
          /\ u \notin endpoint_reqs

\* A URL of the routing output was over budget while another was requested.
C4_Witness ==
    /\ pc = "finalize"
    /\ endpoint_reqs # {}
    /\ \E u \in routed_urls : e_ratio[u] > config.client_retry_budget_threshold

\* A routed stream epoch is longer than max_stream_epoch_duration, or the
\* routed stream epochs together last longer than
\* max_total_stream_epoch_duration.
DurationExceeded ==
    \/ /\ config.max_stream_epoch_duration # None
       /\ routed.longest > config.max_stream_epoch_duration
    \/ /\ config.max_total_stream_epoch_duration # None
       /\ routed.total > config.max_total_stream_epoch_duration

\* C5: a request whose routed stream epochs exceed the single or the total
\* duration limit fails with status 413, and no endpoint request is made.
C5_TooLarge ==
    DurationExceeded => /\ pc = "errored"
                        /\ status = 413
                        /\ endpoint_reqs = {}

\* The total limit was exceeded by stream epochs each within the single limit.
C5_Witness ==
    /\ status = 413
    /\ config.max_stream_epoch_duration # None
    /\ routed.longest <= config.max_stream_epoch_duration
    /\ routed.total > config.max_total_stream_epoch_duration

\* The nodata status of the request: 204, or 404 if requested.
RequestedNodata == IF req.query_params.nodata = 404 THEN 404 ELSE 204

\* The answer of the routing service to the request, if it was asked.
RoutingAnswered(codes) ==
    /\ routing_reqs # <<>>
    /\ routing_reqs[Len(routing_reqs)].answer.exc = "none"
    /\ routing_reqs[Len(routing_reqs)].answer.status \in codes

\* Routing answered 200 and _emerge_routes returned no route.
NoRoute ==
    /\ RoutingAnswered({200})
    /\ pc = "errored"
    /\ parse = InitParse
    /\ routes = <<>>
    /\ jobs = <<>>

\* C6: when routing answers 204 or 404, or yields no route, the request fails
\* with its nodata status, whatever the request method, and no endpoint request
\* is made.
C6_RoutingNoData ==
    (RoutingAnswered({204, 404}) \/ NoRoute) =>
       /\ pc = "errored"
       /\ status = RequestedNodata
       /\ endpoint_reqs = {}

\* Routing answered 204 to a POST request that asked for nodata=404.
C6_Witness ==
    /\ RoutingAnswered({204})
    /\ req.post
    /\ req.query_params.nodata = 404
    /\ status = 404

\* C7: when routing answers with an error status or any status other than 200
\* and the no-content codes, fails in transport or times out, the request fails
\* with status 500 and no endpoint request is made.
C7_RoutingError ==
    ( /\ routing_reqs # <<>>
      /\ ~RoutingAnswered({200, 204, 404}) ) =>
       /\ pc = "errored"
       /\ status = 500
       /\ endpoint_reqs = {}

\* Routing answered 202.
C7_Witness ==
    /\ RoutingAnswered({202})
    /\ status = 500
    /\ pc = "errored"

\* Every job was submitted and ended, and no endpoint produced content.
NoContentJoined ==
    /\ pc \notin {"dispatch", "join", "cancelled"}
    /\ jobs # <<>>
    /\ pending = <<>>
    /\ \A j \in DOMAIN jobs : jobs[j].state = "done" /\ Buf(jobs[j]) = <<>>

\* C8: when no endpoint produced content the response was never prepared and
\* the request ends with its nodata status; the status is 200 exactly when a
\* fragment was delivered.
C8_NoContent ==
    /\ NoContentJoined => /\ ~response.prepared
                          /\ pc = "errored"
                          /\ status = RequestedNodata
    /\ ~response.hit =>
          (status = 200 <=> (response.wire.data # <<>> \/ response.reset))

\* Two endpoints were asked for a POST request, none produced content.
C8_Witness ==
    /\ NoContentJoined
    /\ req.post
    /\ Cardinality(endpoint_reqs) = 2
    /\ status = 204

\* C9: when the streaming timeout ends the wait for the Drain, a request whose
\* response is not prepared fails with 413; a prepared response is closed with
\* what was delivered and no error is raised.
C9_StreamingTimeout ==
    [][ (pc = "join" /\ ~JoinComplete /\ pc' \notin {"join", "cancelled"}) =>
           IF response.prepared
           THEN /\ pc' = "finalize"
                /\ status' = status
                /\ response' = [response EXCEPT !.eof = TRUE]
           ELSE /\ pc' = "errored"
                /\ status' = 413 ]_vars

\* The timeout fired on a prepared response: it is closed while a job still runs.
C9_Witness ==
    /\ pc = "finalize"
    /\ response.eof
    /\ response.wire.data # <<>>
    /\ status = 200
    /\ \E j \in DOMAIN jobs : jobs[j].state = "running"

\* C10: a request identical to one whose reply populated the cache is served
\* from the cache: its body, once the content coding is undone, is the body the
\* earlier request streamed, and it causes no routing and no endpoint request;
\* a request that is not served from the cache found no entry for its key.
C10_CacheIdempotence ==
    /\ response.hit =>
          /\ origin[RequestId(req)] # NoEntry
          /\ ClientBody(response) = origin[RequestId(req)]
          /\ status = 200
          /\ routing_reqs = <<>>
          /\ endpoint_reqs = {}
    /\ (~response.hit /\ pc \in {"route", "emerge", "make_response", "dispatch", "join"}) =>
          origin[RequestId(req)] = NoEntry

\* A cached body with content is served in gzip coding.
C10_Witness ==
    /\ response.hit
    /\ response.content_encoding = "gzip"
    /\ ClientBody(response).data # <<>>


\* The routes of the submitted jobs whose request failed in transport or timed
\* out, and those whose payload reached the job's buffer.
FailedRoutes ==
    {<<j, i>> \in (1..Len(jobs)) \X (1..MaxBlocks * MaxRows * 2) :
        i \in DOMAIN jobs[j].routes /\ jobs[j].results[i] = "failed"}

DeliveredRoutes ==
    {<<j, i>> \in (1..Len(jobs)) \X (1..MaxBlocks * MaxRows * 2) :
        i \in DOMAIN jobs[j].routes /\ jobs[j].results[i] = "data"}

\* The payloads in the heap or on the wire.
StreamedPayloads ==
    UNION {Range(f.data) : f \in heap \cup Range(response.wire.data)}

\* C11: a transport or timeout error on an endpoint request records 503 for
\* that URL in the retry budget and yields nothing for that route (its job's
\* buffer lacks it); it never fails the request: once the join has returned
\* (every job done and every fragment written before the streaming timeout)
\* with another route's payload delivered, the status is 200 and the
\* processor is not errored.
C11_TransportError ==
    /\ \A r \in FailedRoutes :
         LET job == jobs[r[1]]
             route == job.routes[r[2]]
         IN /\ <<route.url, 503>> \in budget
            /\ Payload(route) \notin Range(Buf(job))
    /\ (/\ FailedRoutes # {}
        /\ DeliveredRoutes # {}
        /\ pc \in {"finalize", "done", "errored"}
        /\ JoinComplete)
       => (status = 200 /\ pc # "errored")

\* A request is done with status 200 with one route failed and another's
\* payload on the wire.
C11_Witness ==
    /\ pc = "done"
    /\ status = 200
    /\ FailedRoutes # {}
    /\ \E r \in DeliveredRoutes :
         Payload(jobs[r[1]].routes[r[2]]) \in StreamedPayloads

\* The epochs of a sequence start at the window's start, end at its end and
\* each next one touches or overlaps the one before.
Covers(epochs, window) ==
    /\ epochs # <<>>
    /\ epochs[1].start = window.start
    /\ epochs[Len(epochs)].end = window.end
    /\ \A i \in 1..(Len(epochs) - 1) :
         /\ epochs[i].start <= epochs[i + 1].start
         /\ epochs[i + 1].start <= epochs[i].end

CallStatuses == [i \in DOMAIN split.calls |-> split.calls[i].status]
CallEpochs == [i \in DOMAIN split.calls |-> split.calls[i].epoch]

\* C12: after a 413 for an epoch the worker submits at most splitting_factor
\* sub-requests whose consecutive sub-intervals touch or overlap and cover
\* exactly the epoch; with splitting_factor 2, a 413 for the whole window and
\* 200 for both halves, three endpoint calls are made and the body is the
\* payload of the whole window.
C12_Split413 ==
    /\ split.last # NoSplit
       => /\ Len(split.last.into) <= split.splitting_factor
          /\ Covers(split.last.into, split.last.of)
    /\ (/\ split.pc = "done"
        /\ split.splitting_factor = 2
        /\ Len(split.calls) > 1
        /\ split.calls[1].status = 413
        /\ \A i \in 2..Len(split.calls) : split.calls[i].status = 200)
       => /\ Len(split.calls) = 3
          /\ split.body = <<split.calls[2].epoch, split.calls[3].epoch>>
          /\ Covers(split.body, split.whole)

\* The worker returned after a 413 for the longest window and a 200 for each
\* of its two halves.
C12_Witness ==
    /\ split.pc = "done"
    /\ split.splitting_factor = 2
    /\ EpochDuration(split.whole) = MaxSplitLength
    /\ CallStatuses = <<413, 200, 200>>

\* The halves and quarters of the whole window.
Halves == split_epoch(split.whole, 2)
Quarters == split_epoch(Halves[1], 2) \o split_epoch(Halves[2], 2)

\* C13: a sub-epoch that answers 413 again is split again, and the requests
\* go depth-first in chronological order: a later request is for a part of an
\* earlier request's epoch or for an epoch after it. With splitting_factor 2,
\* 413 for the whole window and both halves and 200 for the four quarters,
\* the seven requests are whole, half 1, quarter 1, quarter 2, half 2,
\* quarter 3, quarter 4 and the body is the four quarters in chronological
\* order, spanning the window.
C13_RecursiveSplit ==
    /\ \A i, j \in DOMAIN split.calls :
         i < j =>
           LET a == split.calls[i].epoch
               b == split.calls[j].epoch
           IN \/ a.start <= b.start /\ b.end <= a.end
              \/ a.end <= b.start
    /\ split.pc = "done"
       => \A i \in DOMAIN split.calls :
            (split.calls[i].status = 413 /\ EpochDuration(split.calls[i].epoch) > SplitFloor)
            => \A sub \in Range(split_epoch(split.calls[i].epoch, split.splitting_factor)) :
                 \E j \in DOMAIN split.calls : i < j /\ split.calls[j].epoch = sub
    /\ (/\ split.pc = "done"
        /\ split.splitting_factor = 2
        /\ EpochDuration(split.whole) >= 4
        /\ \A i \in DOMAIN split.calls :
             split.calls[i].status =
                 IF split.calls[i].epoch \in {split.whole} \cup Range(Halves) THEN 413 ELSE 200)
       => /\ CallEpochs = <<split.whole, Halves[1], Quarters[1], Quarters[2],
                            Halves[2], Quarters[3], Quarters[4]>>
          /\ split.body = Quarters
          /\ Covers(split.body, split.whole)

\* The worker returned after 413 for the whole window and both halves and 200
\* for the four quarters.
C13_Witness ==
    /\ split.pc = "done"
    /\ split.splitting_factor = 2
    /\ EpochDuration(split.whole) >= 4
    /\ CallStatuses = <<413, 413, 200, 200, 413, 200, 200>>

\* The station codes in ascending order.
StationOrder == <<"A", "B">>
StationRank(sta) == CHOOSE i \in DOMAIN StationOrder : StationOrder[i] = sta

\* The stream epochs of a sequence of routes or payloads come in ascending
\* station code order.
ByStation(stas) ==
    \A i \in 1..(Len(stas) - 1) : StationRank(stas[i]) < StationRank(stas[i + 1])

\* Jobs of several stream epochs at one endpoint, each answered with data.
MultiEpochJobs ==
    {j \in DOMAIN jobs :
        /\ Len(jobs[j].routes) >= 2
        /\ \A i \in DOMAIN jobs[j].routes :
             /\ jobs[j].routes[i].url = jobs[j].routes[1].url
             /\ jobs[j].results[i] = "data"}

\* The fragments of a priority in the heap or on the wire.
FragmentsOf(priority) ==
    {f \in heap \cup Range(response.wire.data) : f.priority = priority}

RoutingMethodPreserved ==
    \A i \in DOMAIN routing_reqs : routing_reqs[i].method = Method(req)

\* C15 as stated: the client's method is preserved end-to-end, the routing
\* request and every endpoint request use the method of the client's request.
C15_MethodPreserved ==
    /\ RoutingMethodPreserved
    /\ \A m \in endpoint_methods : m = Method(req)

\* C15, amended: the routing request uses the method of the client's request;
\* every endpoint request uses the configured endpoint_request_method.
C15_RequestMethods ==
    /\ RoutingMethodPreserved
    /\ \A m \in endpoint_methods : m = config.endpoint_request_method

\* A client's POST was routed and an endpoint request made while the
\* configured endpoint_request_method is GET.
C15_Witness ==
    /\ req.post
    /\ config.endpoint_request_method = "GET"
    /\ routing_reqs # <<>>
    /\ endpoint_methods # {}

\* The steps of finalize (self._await_on_close) have all been run.
Finalized == Len(fin) = Len(await_on_close)

\* The request has ended: with a response, with an error or cancelled.
RequestEnded == pc \in {"done", "errored", "cancelled"}

\* C16 as stated: finalize is run on every path, before a request ends with a
\* federated response, with an error or cancelled.
C16_FinalizeAlways ==
    (RequestEnded /\ ~response.hit) => Finalized

\* C16, amended: finalize is run, to completion, exactly on the path where
\* _make_response returned the response (the stream is at its end); a request
\* that ends with an FDSN error or is cancelled before that has run no step of
\* finalize, and neither has a request served from the cache.
C16_FinalizeOnSuccess ==
    /\ fin # <<>> => (response.eof /\ pc \in {"finalize", "done"})
    /\ (pc = "done" /\ ~response.hit) => (Finalized /\ response.eof)
    /\ pc = "finalize" => ~Finalized
    /\ (pc \in {"errored", "cancelled"} \/ response.hit) => fin = <<>>

\* Finalize has run to its end after a federated response.
C16_Witness ==
    /\ pc = "done"
    /\ ~response.hit
    /\ response.eof
    /\ Finalized

IsPrefix(p, q) == Len(p) <= Len(q) /\ p = SubSeq(q, 1, Len(p))

\* C17 as stated: finalize garbage-collects the retry budget, then cancels
\* the workers, then writes the cache: the cache write comes after worker
\* teardown.
C17_CacheAfterTeardown ==
    IsPrefix(fin, <<"gc", "teardown", "set_cache">>)

\* C17, amended: finalize runs the cache write first, then the garbage
\* collection of the retry budget, then the teardown of the workers: the
\* cache write comes before worker teardown.
C17_FinalizeOrder ==
    /\ IsPrefix(fin, <<"set_cache", "gc", "teardown">>)
    /\ (pc = "done" /\ ~response.hit) => fin = <<"set_cache", "gc", "teardown">>

\* Finalize has run its three steps, the teardown cancelling a worker still
\* in flight after the cache was written.
C17_Witness ==
    /\ pc = "done"
    /\ fin = <<"set_cache", "gc", "teardown">>
    /\ \E j \in DOMAIN jobs : jobs[j].state = "cancelled"

\* C18 as stated: a connection reset while writing is swallowed and does not
\* abort cache population: every fragment passed to the stream response's
\* write is in the cache buffer, and a response that ran to its end has the
\* full concatenation of the fragments in the cache buffer.
C18_CachePopulated ==
    /\ Len(cache_buffer) = response.passed
    /\ (response.eof /\ JoinComplete) => cache_buffer = ExpectedBody(jobs)

\* The client went away after the first fragment; the second write was
\* swallowed, the join returned, and finalize stored a cache entry of one
\* fragment for a body of two.
C18_Witness ==
    /\ pc = "done"
    /\ status = 200
    /\ response.reset
    /\ response.passed = 2
    /\ Len(cache_buffer) = 1
    /\ Len(ExpectedBody(jobs)) = 2
    /\ "set_cache" \in Range(fin)
    /\ cache[make_cache_key(req.query_params, req.ses, ProcessorType)].data = cache_buffer

\* The processor was cancelled, or finalize has torn its workers down.
TornDown == pc = "cancelled" \/ "teardown" \in Range(fin)

\* C19: once the processor is cancelled, or its workers are torn down in
\* finalize, no worker of the request is in flight (each was cancelled and
\* awaited), no submit is waiting or can go ahead, and no further endpoint
\* request can be issued for the request.
C19_Cancellation ==
    TornDown =>
       /\ InFlight(jobs) = {}
       /\ \A j \in DOMAIN jobs : jobs[j].state \in {"done", "cancelled"}
       /\ ~ENABLED PoolSubmit
       /\ ~ENABLED WorkerFetch

\* The processor was cancelled while it waited in submit() for a full pool:
\* a job is still to be submitted, and the jobs that were in flight, with
\* endpoint requests outstanding, are cancelled.
C19_Witness ==
    /\ pc = "cancelled"
    /\ pending # <<>>
    /\ Cardinality({j \in DOMAIN jobs : jobs[j].state = "cancelled"}) >= MaxWorkers
    /\ \E j \in DOMAIN jobs :
         /\ jobs[j].state = "cancelled"
         /\ \E i \in DOMAIN jobs[j].routes : jobs[j].results[i] = "none"

\* The routing request of this request failed or was answered with an error.
RoutingFailed ==
    \E i \in DOMAIN routing_reqs :
       \/ routing_reqs[i].answer.exc # "none"
       \/ routing_reqs[i].answer.status \notin {200} \cup FDSNWS_NO_CONTENT_CODES

ReadingUnreadUrl ==
    pc = "emerge" /\ parse.url # NoUrl /\ e_ratio[parse.url] = RatioError

\* C21: a failure of the RetryBudget's backing store never fails the request.
\* A URL whose error ratio cannot be read is not skipped and every row below
\* it becomes a route (unless its duration is refused with 413); a failed
\* update records nothing and leaves the worker and the request as they were;
\* a failed gc lets finalize go on and the response keep its status 200. A
\* request during which the RetryBudget failed ends with an error only with
\* the nodata code, with 413, or with 500 after a failed routing request.
C21_BudgetFailure ==
    /\ [](ReadingUnreadUrl => ~parse.skip_url)
    /\ [][ (ReadingUnreadUrl /\ parse'.nrows = parse.nrows + 1) =>
              \/ status' = 413
              \/ /\ Len(parse'.routes) = Len(parse.routes) + 1
                 /\ parse'.routes[Len(parse'.routes)].url = parse.url ]_vars
    /\ [][ ("add" \in budget_backend'.failed /\ "add" \notin budget_backend.failed) =>
              /\ budget' = budget
              /\ pc' = pc /\ status' = status
              /\ \A j \in DOMAIN jobs : jobs'[j].state = jobs[j].state ]_vars
    /\ []("gc" \in budget_backend.failed =>
              /\ pc \in {"finalize", "done"}
              /\ status = 200
              /\ pc = "done" => Finalized)
    /\ []( ( pc = "errored"
             /\ (budget_backend.failed # {} \/ \E u \in URLs : e_ratio[u] = RatioError) )
           => \/ status \in {nodata(req), 413}
              \/ status = 500 /\ RoutingFailed )

\* The error ratio of the routed URL could not be read, the update after its
\* answer and the gc both failed, and the client got the URL's payload with
\* status 200, finalize run to its end.
C21_Witness ==
    /\ pc = "done"
    /\ status = 200
    /\ \E u \in routed_urls : e_ratio[u] = RatioError /\ u \in endpoint_reqs
    /\ budget_backend.failed = {"add", "gc"}
    /\ response.wire.data # <<>>
    /\ Finalized

\* Two of the routes have the same network.station.location.channel and
\* different endpoint URLs.
DistributedRoutes(rs) ==
    \E i, k \in DOMAIN rs :
       Nslc(rs[i].se) = Nslc(rs[k].se) /\ rs[i].url # rs[k].url

\* C22: when the routes of one network.station.location.channel name more
\* than one endpoint URL, _dispatch fails the request with the nodata status
\* before its first submit: no job is submitted or started and no endpoint
\* request is made, for any network; otherwise it goes on to submit.
C22_DistributedRejected ==
    /\ [][ (pc = "make_response" /\ pc' \notin {"make_response", "cancelled"}) =>
              IF DistributedRoutes(routes)
              THEN /\ pc' = "errored"
                   /\ status' = nodata(req)
                   /\ pending' = <<>> /\ jobs' = <<>>
              ELSE pc' = "dispatch" /\ pending' # <<>> ]_vars
    /\ []( (pc = "errored" /\ DistributedRoutes(routes)) =>
              /\ status = nodata(req)
              /\ pending = <<>> /\ jobs = <<>>
              /\ endpoint_reqs = {} /\ endpoint_methods = {} )

\* A request was refused for the distributed stream epoch of one network while
\* it had a route of another network too.
C22_Witness ==
    /\ pc = "errored"
    /\ status = nodata(req)
    /\ DistributedRoutes(routes)
    /\ \E i, k \in DOMAIN routes : routes[i].se.net # routes[k].se.net
    /\ endpoint_reqs = {}

\* The crawler process is between its _get_pid_lock and the end of its Pool
\* block, or one of its jobs is in flight.
Crawling == crawl.pc \in {"level", "crawl", "aexit"} \/ crawl.running > 0

\* C23: crawler processes with the same PID file exclude each other: the
\* process crawls only while it holds the lock, and the other process, which
\* crawls while it holds the lock, does not hold it then. A process whose
\* acquire fails goes to its finally block with EXIT_ERROR, leaves the lock to
\* its holder and has made no routing request and submitted no job.
C23_CrawlerExclusion ==
    /\ [](Crawling => crawl.lock = "self" /\ crawl.got_pid_lock)
    /\ [][ (crawl.pc = "start" /\ crawl.lock # "free" /\ crawl'.pc # "start") =>
              /\ crawl'.pc = "finally"
              /\ crawl'.exit_code = EXIT_ERROR
              /\ crawl'.lock = crawl.lock ]_vars
    /\ []( (crawl.pc \in {"finally", "exited"} /\ ~crawl.got_pid_lock) =>
              /\ crawl.exit_code = EXIT_ERROR
              /\ crawl.routing_reqs = 0
              /\ crawl.running = 0 /\ crawl.finished = 0 /\ crawl.cancelled = 0
              /\ crawl.todo = 0 )
    /\ [][ (crawl.pc = "finally" /\ crawl'.pc = "exited" /\ ~crawl.got_pid_lock) =>
              crawl'.lock = crawl.lock ]_vars

\* The process found the PID file locked by the other process, which still
\* holds the lock after the process exited with an error.
C23_Witness ==
    /\ crawl.pc = "exited"
    /\ ~crawl.got_pid_lock
    /\ crawl.exit_code = EXIT_ERROR
    /\ crawl.lock = "other"
    /\ crawl.routing_reqs = 0

\* No submitted job is still fetching.
NoJobRunning == \A j \in DOMAIN jobs : jobs[j].state # "running"

\* C24: every request ends: federate() returns the response (done) or leaves
\* with an error, unless its task is cancelled. The Drain does not wait for a
\* priority whose worker has finished: while a fragment is held and no worker
\* is fetching, the writer can write, also when a worker of a lower priority
\* ended without a fragment; and once every worker has finished and every
\* fragment is written, or the streaming timeout has passed, the join returns.
C24_Termination ==
    /\ (pc = "start" ~> RequestEnded)
    /\ []( (pc \in {"dispatch", "join"} /\ heap # {} /\ NoJobRunning) =>
              ENABLED DrainWrite )
    /\ []( pc = "join" => (ENABLED JoinReturn \/ ENABLED StreamingTimeout) )
    /\ []( (pc = "join" /\ pending = <<>> /\ heap = {}
            /\ \A j \in DOMAIN jobs : jobs[j].state = "done") => ENABLED JoinReturn )

\* The request is done with the fragment of the second priority on the wire,
\* the worker of the first priority having ended without a fragment.
C24_Witness ==
    /\ pc = "done"
    /\ Len(jobs) = 2
    /\ Buf(jobs[1]) = <<>>
    /\ jobs[1].state = "done"
    /\ \E i \in DOMAIN response.wire.data : response.wire.data[i].priority = 1
    /\ JoinComplete

\* Two epochs share more than an instant.
EpochsOverlap(a, b) == a.start < b.end /\ b.start < a.end

\* C25: 413 splitting ends. Every split cuts the epoch into at least two
\* sub-epochs, each strictly shorter than it; an answer of 200, or of 413 at
\* the floor, ends the recursion for its epoch (nothing is submitted for it),
\* and no later request touches a sub-range abandoned at the floor; the worker
\* makes at most 2 L - 1 requests for a window of length L and returns.
C25_SplitTerminates ==
    /\ (split.pc = "run" ~> split.pc = "done")
    /\ []( \A i \in DOMAIN split.last.into :
              /\ EpochDuration(split.last.into[i]) < EpochDuration(split.last.of)
              /\ Len(split.last.into) >= 2 )
    /\ [][ Len(split'.calls) = Len(split.calls) + 1 =>
              LET call == split'.calls[Len(split'.calls)]
              IN IF call.status = 200 \/ EpochDuration(call.epoch) <= SplitFloor
                 THEN split'.stack = Tail(split.stack)
                 ELSE Len(split'.stack) > Len(split.stack) ]_vars
    /\ []( \A i, j \in DOMAIN split.calls :
              ( /\ i < j
                /\ split.calls[i].status = 413
                /\ EpochDuration(split.calls[i].epoch) <= SplitFloor )
              => ~EpochsOverlap(split.calls[i].epoch, split.calls[j].epoch) )
    /\ [](Len(split.calls) <= 2 * EpochDuration(split.whole) - 1)

\* The worker returned after a split whose sub-epoch was refused at the floor
\* and abandoned, a later epoch having been requested after it.
C25_Witness ==
    /\ split.pc = "done"
    /\ \E i, j \in DOMAIN split.calls :
          /\ i < j
          /\ split.calls[i].status = 413
          /\ EpochDuration(split.calls[i].epoch) <= SplitFloor
          /\ EpochDuration(split.calls[i].epoch) < EpochDuration(split.whole)
          /\ split.calls[j].status = 200

\* The position of a network code among the network codes in ascending order.
NetRank(net) == CHOOSE i \in DOMAIN NetworkOrder : NetworkOrder[i] = net

\* The jobs of the request in the order _dispatch submits them: those
\* submitted, then those it still has to submit.
DispatchedJobs == jobs \o pending

\* C26: _dispatch submits exactly one job per distinct network code of the
\* routes, each job with the routes of its network; the priorities are
\* 0..N-1 in the order of submission, and the network codes ascend with the
\* priorities, whatever the order of the routes in the routing response.
C26_DispatchPriorities ==
    /\ []( /\ \A i \in DOMAIN DispatchedJobs : DispatchedJobs[i].priority = i - 1
           /\ \A i, k \in DOMAIN DispatchedJobs :
                 i < k => NetRank(DispatchedJobs[i].net) < NetRank(DispatchedJobs[k].net)
           /\ \A i \in DOMAIN DispatchedJobs :
                 \A r \in DOMAIN DispatchedJobs[i].routes :
                    DispatchedJobs[i].routes[r].se.net = DispatchedJobs[i].net )
    /\ [][ (pc = "make_response" /\ pc' = "dispatch") =>
              /\ {pending'[i].net : i \in DOMAIN pending'}
                    = {routes[i].se.net : i \in DOMAIN routes}
              /\ Len(pending') = Cardinality({routes[i].se.net : i \in DOMAIN routes})
              /\ jobs' = <<>> ]_vars

\* Two networks were dispatched, the second of which has two stations.
C26_Witness ==
    /\ pc = "dispatch"
    /\ jobs = <<>>
    /\ Len(pending) = 2
    /\ pending[1].net = "N1" /\ pending[1].priority = 0
    /\ pending[2].net = "N2" /\ pending[2].priority = 1

\* The routes among rs of one network.station.location.channel.
RoutesOf(rs, k) == {r \in rs : Nslc(r.se) = k}

\* The routes of the jobs _dispatch has made.
ReducedRoutes(js) == UNION {Range(js[j].routes) : j \in DOMAIN js}

\* C27: when _dispatch goes on to submit, the routes of each
\* network.station.location.channel have become exactly one route of the jobs:
\* it starts at the earliest starttime and ends at the latest endtime of the
\* contributing routes, an open endtime being the latest and leaving the
\* reduced epoch open; so it covers each contributing epoch.
C27_Extent ==
    [][ (pc = "make_response" /\ pc' = "dispatch") =>
           LET before == Range(routes)
               after == ReducedRoutes(pending')
           IN /\ {Nslc(r.se) : r \in after} = {Nslc(r.se) : r \in before}
              /\ \A j \in DOMAIN pending' :
                    \A a, b \in DOMAIN pending'[j].routes :
                       a # b => Nslc(pending'[j].routes[a].se) # Nslc(pending'[j].routes[b].se)
              /\ \A x \in after :
                    LET contributing == RoutesOf(before, Nslc(x.se))
                        open == \E c \in contributing : c.se.end = None
                    IN /\ RoutesOf(after, Nslc(x.se)) = {x}
                       /\ x.se.start = Min({c.se.start : c \in contributing})
                       /\ x.se.end = IF open THEN None
                                     ELSE Max({c.se.end : c \in contributing})
                       /\ \A c \in contributing :
                             /\ x.se.start <= c.se.start
                             /\ x.se.end = None \/ (c.se.end # None /\ c.se.end <= x.se.end)
                             /\ x.url = c.url ]_vars

\* A closed and a later open epoch of one channel were reduced to one open
\* epoch that starts with the closed one.
C27_Witness ==
    /\ pc = "dispatch"
    /\ \E j \in DOMAIN pending :
          /\ Len(pending[j].routes) = 1
          /\ pending[j].routes[1].se.start = 1
          /\ pending[j].routes[1].se.end = None
          /\ pending[j].routes[1].se.net = "N2"

\* The routes of the worker's job whose request was answered with a status.
AnsweredRoutes ==
    {i \in DOMAIN worker.routes : worker.answers[i].exc = "none"}

\* C28: for every endpoint response, whatever its status, _fetch passes the
\* observed status for the route's URL to update_cretry_budget, once.
C28_StatusRecorded ==
    \A i \in AnsweredRoutes :
       worker.updates[i] = {<<worker.routes[i], worker.answers[i].status>>}

\* The worker has finished a job one of whose routes was answered 204 and
\* another 500, and nothing was passed to update_cretry_budget for either.
C28_Witness ==
    /\ worker.pc = "done"
    /\ \E i, k \in AnsweredRoutes :
          /\ worker.answers[i].status = 204
          /\ worker.answers[k].status = 500
          /\ worker.updates[i] = {} /\ worker.updates[k] = {}

\* C29: an endpoint response with a no-content status, 204 or 404, ends the
\* route without a fragment and without a call of _handle_error or _handle_413.
C29_NoContentSilent ==
    \A i \in AnsweredRoutes :
       worker.answers[i].status \in FDSNWS_NO_CONTENT_CODES =>
          /\ worker.handlers[i] = "none"
          /\ worker.returned[i] = "None"
          /\ BufEntry(worker.run, i) \notin Range(worker.fragment)

\* The worker has finished a job whose route was answered 404: _handle_error
\* was called for it, and no fragment was drained.
C29_Witness ==
    /\ worker.pc = "done"
    /\ ~worker.drained
    /\ \E i \in AnsweredRoutes :
          /\ worker.answers[i].status = 404
          /\ worker.handlers[i] = "_handle_error"
          /\ worker.returned[i] = "None"

\* The one routing request of this request was answered with status 200.
RoutingSucceeded ==
    /\ Len(routing_reqs) = 1
    /\ routing_reqs[1].answer.exc = "none"
    /\ routing_reqs[1].answer.status = 200

\* federate() has gone on to _make_response, or one of its effects is there: a
\* job made or submitted, an endpoint request, a prepared response.
ResponseBuilding ==
    \/ pc \in {"make_response", "dispatch", "join", "finalize"}
    \/ pending # <<>> \/ jobs # <<>>
    \/ endpoint_reqs # {}
    \/ response.prepared

\* C30: federate() goes on to build the response only after the routing
\* request was answered with status 200 and _emerge_routes returned at least
\* one route: jobs are made, workers started and endpoint requests issued only
\* then. A routing request that fails or is answered otherwise ends the
\* request in _route, and a routing response without a surviving route ends it
\* before _make_response.
C30_RoutedBeforeDispatch ==
    /\ [](ResponseBuilding => RoutingSucceeded)
    /\ [](pc = "make_response" => routes # <<>>)
    /\ [][ (pc = "route" /\ pc' \notin {"route", "cancelled"}) =>
              IF RoutingSucceeded'
              THEN pc' = "emerge"
              ELSE pc' = "errored" /\ status' \in {500, nodata(req)} ]_vars
    /\ [][ (pc = "emerge" /\ pc' \notin {"emerge", "cancelled"}) =>
              IF routes' # <<>>
              THEN pc' = "make_response"
              ELSE pc' = "errored" /\ status' \in {413, nodata(req)} ]_vars
    /\ []( (pc = "errored" /\ routes = <<>> /\ pending = <<>> /\ jobs = <<>>) =>
              ~response.prepared /\ endpoint_reqs = {} )

\* The request is done: routing was answered 200, one URL of the answer was
\* passed over for its error ratio, the routes of another were requested.
C30_Witness ==
    /\ pc = "done"
    /\ status = 200
    /\ RoutingSucceeded
    /\ endpoint_reqs # {}
    /\ \E u \in routed_urls : u \notin endpoint_reqs

(***************************************************************************)
(* C31: garbage collection of the RetryBudget at finalize.                 *)
(***************************************************************************)
\* The endpoint URLs read from the routing response of this request: the
\* URL lines, each of which had its error ratio read.
ResponseUrls == {u \in URLs : e_ratio[u] # Unread}

\* C31: once finalize has run its garbage collection, gc_cretry_budget was
\* called once for every endpoint URL that appeared in the routing response
\* of the request, and for no other URL.
C31_GcEveryResponseUrl ==
    "gc" \in Range(fin) =>
        \A u \in URLs : gc_calls[u] = IF u \in ResponseUrls THEN 1 ELSE 0

\* A request whose finalize has collected, yet not for a URL of its routing
\* response that an endpoint request was made to.
C31_Witness ==
    /\ "gc" \in Range(fin)
    /\ \E u \in ResponseUrls : u \in endpoint_reqs /\ gc_calls[u] = 0

(***************************************************************************)
(* C34: the URLs of the routes and the URL set of _emerge_routes.          *)
(***************************************************************************)
\* The URLs carrying a route returned by _route: of the routes before they
\* are dispatched and of the routes of the jobs afterwards.
RouteUrls ==
    {routes[i].url : i \in DOMAIN routes}
    \cup UNION {{pending[j].routes[i].url : i \in DOMAIN pending[j].routes} :
                j \in DOMAIN pending}
    \cup UNION {{jobs[j].routes[i].url : i \in DOMAIN jobs[j].routes} : j \in DOMAIN jobs}

\* C34: every URL that carries a returned route is in the URL set returned
\* with the routes, whatever the routing response text, and every endpoint
\* that was requested has been garbage-collected once finalize has collected.
C34_RouteUrlsRouted ==
    /\ RouteUrls \subseteq routed_urls
    /\ "gc" \in Range(fin) => \A u \in endpoint_reqs : gc_calls[u] = 1

\* A finished request with a route, requested at its endpoint, whose URL is
\* outside the URL set and was not collected.
C34_Witness ==
    /\ pc = "done"
    /\ \E u \in RouteUrls \ routed_urls : u \in endpoint_reqs /\ gc_calls[u] = 0
    /\ "gc" \in Range(fin)

(***************************************************************************)
(* C32: the parameters and the URL of an endpoint request.                 *)
(***************************************************************************)
\* The path of a route's URL without its final "/query".
BasePath(path) == SubSeq(path, 1, Len(path) - Len(FDSNWS_QUERY_METHOD_TOKEN) - 1)

\* The endpoint request of the handlers has been built.
EndpointRequestBuilt == handler.pc = "sent"

\* The parameters of the request sent on to the routing service.
RoutingForwarded ==
    {p \in DOMAIN handler.query_params \cap DOMAIN handler.routing :
        handler.routing[p] = handler.query_params[p]}

\* The claim of C32 as the specification words it: a parameter of the request
\* is sent to the endpoint if and only if it is not sent to the routing
\* service.
C32_ComplementOfRouting ==
    EndpointRequestBuilt =>
        \A p \in DOMAIN handler.query_params :
            p \in DOMAIN handler.endpoint <=> p \notin RoutingForwarded

\* C32: a parameter of the request is sent to the endpoint, with its value, if
\* and only if it is outside FdsnRequestHandler.QUERY_PARAMS (service, nodata
\* and the geographic box), and to the routing service if and only if it is in
\* RoutingRequestHandler.QUERY_PARAMS (service, level and the geographic box):
\* level goes to both, nodata to neither.  The endpoint request adds nothing
\* but format, the routing request nothing but format and access.  The
\* endpoint URL is the base path of the route followed by one "/query".
C32_EndpointRequest ==
    EndpointRequestBuilt =>
        /\ \A p \in DOMAIN handler.query_params :
              /\ p \in DOMAIN handler.endpoint <=> p \notin FdsnQueryParams
              /\ p \in RoutingForwarded <=> p \in RoutingQueryParams
              /\ p \in DOMAIN handler.endpoint => handler.endpoint[p] = handler.query_params[p]
        /\ DOMAIN handler.endpoint \subseteq DOMAIN handler.query_params \cup {"format"}
        /\ handler.endpoint["format"] = handler.format
        /\ DOMAIN handler.routing \subseteq
              DOMAIN handler.query_params \cup {"format", "access"}
        /\ handler.routing["format"] = "post"
        /\ handler.url = BasePath(handler.path) \o <<"/">> \o FDSNWS_QUERY_METHOD_TOKEN

\* An endpoint request built for a request with level and nodata: level is
\* sent to the routing service and to the endpoint, nodata to neither.
C32_Witness ==
    /\ EndpointRequestBuilt
    /\ {"level", "nodata", "merge", "service"} \subseteq DOMAIN handler.query_params
    /\ "level" \in DOMAIN handler.endpoint \cap DOMAIN handler.routing
    /\ "nodata" \notin DOMAIN handler.endpoint \cup DOMAIN handler.routing
    /\ "merge" \in DOMAIN handler.endpoint
    /\ handler.path = <<"/", "r", "y", "/", "1", "/">> \o FDSNWS_QUERY_METHOD_TOKEN

(***************************************************************************)
(* C33: the fragment of an availability job.                               *)
(***************************************************************************)
\* The routes of a job that returned content.
ContentRoutes(job) == {i \in DOMAIN job.routes : job.results[i] = "data"}

\* The fragments a step adds to the Drain's heap.
NewFragments == heap' \ heap

\* The job with index j ends its fetching in this step.
LeavesRunning(j) ==
    /\ j \in DOMAIN jobs /\ j \in DOMAIN jobs'
    /\ jobs[j].state = "running" /\ jobs'[j].state \in {"draining", "done"}

RunStarted == worker.pc = "gather"

\* C37: the buffer of a worker is empty at the start of every run, also of a
\* run that follows one which failed or was cancelled between the buffering
\* of data and finalize, and the fragment of a job holds data of that job
\* only.
C37_BufferEmptyAtStart ==
    /\ RunStarted => worker.buf = <<>>
    /\ \A e \in Range(worker.fragment) : e.run = worker.run

\* The second job of a worker, none of whose routes returned content, has
\* handed the Drain a fragment: the data the first job had buffered when the
\* read of a later response failed.
C37_Witness ==
    /\ worker.run = 2
    /\ worker.pc \in {"drain", "done"}
    /\ \A i \in DOMAIN worker.routes : ~parse_response(worker.answers[i])
    /\ worker.fragment = <<BufEntry(1, 1)>>

(***************************************************************************)
(* C35: what writes the Cache.                                             *)
(***************************************************************************)
\* The key of the request being served.
RequestKey == make_cache_key(req.query_params, req.ses, ProcessorType)

\* C35: the Cache changes only in finalize, which a request reaches only
\* after its response was made without an error, and then only under the key
\* of that request; a request served from the cache runs no step of finalize
\* and writes nothing; a request that ends with an error (500, the nodata
\* code, 413) has run no step of finalize, and no request goes from finalize
\* to an error.
C35_CacheWrittenOnSuccess ==
    /\ [][cache' # cache =>
            /\ pc = "finalize"
            /\ ~response.hit
            /\ status = 200
            /\ Len(fin') = 1 /\ fin'[1] = "set_cache"
            /\ \A k \in CacheKeys \ {RequestKey} : cache'[k] = cache[k]]_vars
    /\ [][pc = "finalize" => pc' \in {"finalize", "done"}]_vars
    /\ [](response.hit => fin = <<>>)
    /\ [](pc = "errored" => fin = <<>> /\ status \in {500, 204, 404, 413})

\* A request has ended with 413 and nothing is stored under its key, after
\* an earlier request stored its reply under another key.
C35_Witness ==
    /\ pc = "errored"
    /\ status = 413
    /\ cache[RequestKey] = NoEntry
    /\ \E k \in CacheKeys : cache[k] # NoEntry

(***************************************************************************)
(* C36: the order of submission, the Pool bound and the Drain.             *)
(***************************************************************************)
\* The priorities of the request that have not passed through the Drain: the
\* job is not submitted, has not ended, or its fragment is still held.
NotThrough ==
    {p \in 0..(Len(jobs) + Len(pending) - 1) :
        \/ p + 1 \notin DOMAIN jobs
        \/ jobs[p + 1].state \in {"running", "draining"}
        \/ \E f \in heap : f.priority = p}

\* A worker can take a step, or the writer can write.
WorkerOrWriterEnabled ==
    \/ ENABLED WorkerFetch
    \/ ENABLED WorkerDrain
    \/ ENABLED WorkerReturn
    \/ ENABLED DrainWrite

CacheWriteFailed == "set" \in cache_backend.failed

\* C38: the steps of finalize are independent: when the cache write fails,
\* the request does not end before the garbage collection of the RetryBudget
\* and the teardown of the workers have run as well.
C38_FinalizeStepsIndependent ==
    (CacheWriteFailed /\ RequestEnded) =>
        /\ "gc" \in Range(fin)
        /\ "teardown" \in Range(fin)
        /\ gc_calls = gc_response_code_stats(routed_urls)
        /\ InFlight(jobs) = {}

\* The cache write raised: the request has ended with the garbage collection
\* and the teardown not run, no URL collected and a worker still in flight.
C38_Witness ==
    /\ CacheWriteFailed
    /\ pc = "errored"
    /\ fin = <<"set_cache">>
    /\ routed_urls # {}
    /\ gc_calls = NoGc
    /\ InFlight(jobs) # {}

(***************************************************************************)
(* C39: the rows of a routing response and the RetryBudget of their URL.   *)
(***************************************************************************)
\* _emerge_routes is inside the block of a URL.
InUrlBlock == pc = "emerge" /\ parse.url # NoUrl

\* The step reads a row below the URL of the current block.
ReadsRow == InUrlBlock /\ parse'.nrows = parse.nrows + 1

\* The step appends one Route of a single stream epoch, that of a row of the
\* routing response under the URL of the block, behind the routes emitted so
\* far.
AppendsOneRoute ==
    /\ Len(parse'.routes) = Len(parse.routes) + 1
    /\ SubSeq(parse'.routes, 1, Len(parse.routes)) = parse.routes
    /\ \E row \in catalogue.rows :
          LET se == FromSnclLine(row, IF req.post THEN DefaultEndtime ELSE None)
          IN /\ parse'.routes[Len(parse'.routes)] = Route_(parse.url, se)
             /\ Duration(se) = routed'.total - routed.total

\* C39: skipping for the RetryBudget is per URL block: inside a block rows are
\* skipped exactly when the error ratio of the block's own URL exceeds the
\* threshold, whatever happened in the blocks before; a row read under such a
\* URL emits nothing, and a row read under a URL whose ratio is at or below
\* the threshold, or unreadable, is appended as one single-epoch Route behind
\* the routes emitted before it (or refused with 413 for its duration).
C39_SkipPerUrlBlock ==
    /\ [](InUrlBlock => (parse.skip_url <=> ExceedsBudget(config, e_ratio[parse.url])))
    /\ [][ReadsRow =>
            IF ExceedsBudget(config, e_ratio[parse.url])
            THEN parse'.routes = parse.routes /\ pc' = "emerge"
            ELSE \/ AppendsOneRoute /\ pc' = "emerge"
                 \/ pc' = "errored" /\ status' = 413]_vars
    /\ [][pc = "emerge" /\ parse'.routes # parse.routes =>
            ReadsRow \/ (pc' # "emerge" /\ parse'.routes = <<>>)]_vars

\* The block of a URL over its budget was skipped, and in the block after it
\* both rows of a URL within its budget were emitted, in the order read.
C39_Witness ==
    /\ InUrlBlock
    /\ parse.nblocks = 2 /\ parse.nrows = 2
    /\ parse.urls # {}
    /\ \A u \in parse.urls : ExceedsBudget(config, e_ratio[u])
    /\ ~ExceedsBudget(config, e_ratio[parse.url])
    /\ Len(parse.routes) = 2
    /\ \A i \in DOMAIN parse.routes : parse.routes[i].url = parse.url
    /\ parse.routes[1].se # parse.routes[2].se

(***************************************************************************)
(* C40: the PID lock of the crawler on the ways out of run().              *)
(***************************************************************************)
\* run() is through its finally block.
CrawlExited == crawl.pc = "exited"

\* C40: the crawler releases its PID lock on every way out of run() on which
\* it acquired it, and never calls release on a lock it did not acquire: the
\* lock once acquired is held up to the finally block; a process that exited
\* has released the lock once if it acquired it and not at all otherwise; a
\* release is made in the finally block only, by the holder, and frees the
\* lock; the lock of another process is left alone.
C40_PidLockReleased ==
    /\ []((crawl.got_pid_lock /\ ~CrawlExited) => crawl.lock = "self" /\ crawl.released = 0)
    /\ [](CrawlExited =>
             IF crawl.got_pid_lock
             THEN crawl.released = 1 /\ crawl.lock # "self"
             ELSE crawl.released = 0 /\ crawl.raised = "AlreadyCrawling")
    /\ [](~crawl.got_pid_lock => crawl.lock # "self" /\ crawl.released = 0)
    /\ [][crawl'.released # crawl.released =>
            /\ crawl.pc = "finally" /\ crawl'.pc = "exited"
            /\ crawl.got_pid_lock /\ crawl.lock = "self"
            /\ crawl'.lock = "free"
            /\ crawl'.released = crawl.released + 1]_vars
    /\ [][(crawl.pc = "finally" /\ crawl'.pc = "exited" /\ ~crawl.got_pid_lock) =>
            crawl'.released = crawl.released]_vars

\* run() was left by an exception that is no Error, raised while jobs of an
\* earlier level were in flight: the lock it held was released once.
C40_Witness ==
    /\ CrawlExited
    /\ crawl.got_pid_lock
    /\ crawl.raised = "ClientError"
    /\ crawl.exit_code = EXIT_ERROR
    /\ crawl.cancelled > 0
    /\ crawl.released = 1
    /\ crawl.lock = "free"

====
